---- MODULE Spec2Model ----
(***************************************************************************)
(* Scoring and recommendation engine of candidate_screener.py.             *)
(*                                                                         *)
(* Each scorer of the source is an operator computed the way the code      *)
(* computes it; a call of a scorer is an action that draws the arguments   *)
(* from bounded sets and records the arguments together with the outcome   *)
(* (a returned value or a raised exception).                               *)
(*                                                                         *)
(* Numbers: Python floats are modelled as exact rationals [n |-> , d |-> ] *)
(* with d > 0.  Strings that the code inspects character by character      *)
(* (skills) are sequences of one-character strings; labels that the code   *)
(* only compares for equality (education) are TLA+ strings.                *)
(***************************************************************************)
EXTENDS Integers, Sequences, FiniteSets, TLC

VARIABLES
    exp_call,     \* last call of calculate_experience_score
    exp_prev,     \* the call of calculate_experience_score before exp_call
    edu_call,     \* last call of calculate_education_score
    skill_call,   \* last call of calculate_skill_match_score
    score_call,   \* last call of score_candidate
    rec_call,     \* last call of generate_recommendation
    rec_count,    \* number of generate_recommendation invocations so far
    rec_log,      \* recommendations produced so far, in order
    task,         \* one scoring whose four component scorers run in any order
    extract_call, \* last call of extract_candidate_data_with_claude
    questions_call, \* last call of generate_interview_questions
    report        \* last run of screen_candidate

vars ==
    <<exp_call, exp_prev, edu_call, skill_call, score_call, rec_call, rec_count,
      rec_log, task, extract_call, questions_call, report>>

(***************************************************************************)
(* Bounds of the model                                                     *)
(***************************************************************************)
MaxYears == 8          \* experience years and minimum years range over 0..MaxYears
MaxEdu == 2            \* longest candidate education list
MaxCandSkills == 2     \* longest candidate skill list offered to the skill matcher
MaxReqSkills == 2      \* longest required_skills list
MaxPrefSkills == 2     \* longest preferred_skills list
MaxRoles == 2          \* longest past_roles list offered to the soft-skill assessment
MaxNice == 1           \* longest nice_to_have_skills list
MaxOverall == 1050     \* largest overall score, in tenths of a point
MaxMissing == 2        \* longest missing_required_skills list
MaxRecCalls == 2       \* generate_recommendation invocations that are counted
MaxTokens == 3         \* longest text of a service response, in tokens

NoCall == [called |-> FALSE]

\* a component result that has not been computed
Pending == [pending |-> TRUE]

Components == {"skill", "experience", "education", "soft"}

\* the scoring before score_candidate is entered
IdleTask ==
    [started |-> FALSE, done |-> {}, order |-> <<>>, failed |-> FALSE,
     aggregated |-> FALSE,
     skill |-> Pending, experience |-> Pending, education |-> Pending,
     soft |-> Pending, result |-> Pending]

(***************************************************************************)
(* Generic helpers                                                         *)
(***************************************************************************)
Min(a, b) == IF a <= b THEN a ELSE b
Max(a, b) == IF a >= b THEN a ELSE b

\* all sequences over S of length 0..n
SeqsUpTo(S, n) == UNION {[1..k -> S] : k \in 0..n}

(***************************************************************************)
(* calculate_experience_score                                              *)
(***************************************************************************)
\* without the cap on the bonus and without min(score, 100)
calculate_experience_score_nocap(candidate_years, minimum_required) ==
    IF candidate_years >= minimum_required
    THEN [score |-> 80 + (candidate_years - minimum_required) * 5,
          assessment |-> [kind |-> "Meets requirement",
                          years |-> candidate_years]]
    ELSE [score |-> Max(0, 80 - (minimum_required - candidate_years) * 15),
          assessment |-> [kind |-> "Below target",
                          years |-> candidate_years,
                          required |-> minimum_required]]

\* the below-target branch starting from 100 instead of 80
calculate_experience_score_base100(candidate_years, minimum_required) ==
    IF candidate_years >= minimum_required
    THEN [score |-> Min(80 + Min((candidate_years - minimum_required) * 5, 20), 100),
          assessment |-> [kind |-> "Meets requirement",
                          years |-> candidate_years]]
    ELSE [score |-> Min(Max(0, 100 - (minimum_required - candidate_years) * 15), 100),
          assessment |-> [kind |-> "Below target",
                          years |-> candidate_years,
                          required |-> minimum_required]]

\* ">" where the code has ">=": exactly the minimum counts as below target
calculate_experience_score_strictly(candidate_years, minimum_required) ==
    IF candidate_years > minimum_required
    THEN [score |-> Min(80 + Min((candidate_years - minimum_required) * 5, 20), 100),
          assessment |-> [kind |-> "Meets requirement",
                          years |-> candidate_years]]
    ELSE [score |-> Min(Max(0, 80 - (minimum_required - candidate_years) * 15), 100),
          assessment |-> [kind |-> "Below target",
                          years |-> candidate_years,
                          required |-> minimum_required]]

calculate_experience_score(candidate_years, minimum_required) ==
    LET branch ==
            IF candidate_years >= minimum_required
            THEN LET bonus == Min((candidate_years - minimum_required) * 5, 20)
                 IN  [score |-> 80 + bonus,
                      assessment |-> [kind |-> "Meets requirement",
                                      years |-> candidate_years]]
            ELSE LET shortfall == minimum_required - candidate_years
                 IN  [score |-> Max(0, 80 - (shortfall * 15)),
                      assessment |-> [kind |-> "Below target",
                                      years |-> candidate_years,
                                      required |-> minimum_required]]
    IN  [score |-> Min(branch.score, 100), assessment |-> branch.assessment]

(***************************************************************************)
(* calculate_education_score                                               *)
(***************************************************************************)
HierarchyLabels ==
    {"High School or Certificate", "Associate Degree", "Bachelor's Degree",
     "Master's Degree", "PhD"}

\* a label that is not a key of education_hierarchy
UnrecognizedLabel == "Diploma"

EducationLabels == HierarchyLabels \cup {UnrecognizedLabel}

education_hierarchy(label) ==
    CASE label = "High School or Certificate" -> 1
      [] label = "Associate Degree" -> 2
      [] label = "Bachelor's Degree" -> 3
      [] label = "Master's Degree" -> 4
      [] label = "PhD" -> 5

\* every missing key read as 0, whatever default the caller passes
hierarchy_get_zero(label, default) ==
    IF label \in HierarchyLabels THEN education_hierarchy(label) ELSE 0

\* dict.get(label, default)
hierarchy_get(label, default) ==
    IF label \in HierarchyLabels THEN education_hierarchy(label) ELSE default

\* max(<generator>, default=0)
RECURSIVE max_level(_)
max_level(candidate_education) ==
    IF candidate_education = <<>> THEN 0
    ELSE LET head == hierarchy_get(Head(candidate_education), 0)
             rest == Tail(candidate_education)
         IN  IF rest = <<>> THEN head ELSE Max(head, max_level(rest))

IndexError == [raised |-> TRUE, exception |-> "IndexError"]

\* candidate_education[0] inside an f-string: raises IndexError on the empty list
first_entry_raises(candidate_education) == candidate_education = <<>>

\* the "meets or exceeds" assessment naming the highest entry instead of the first
calculate_education_score_highest(candidate_education, minimum_education) ==
    LET required_level == hierarchy_get(minimum_education, 3)
        candidate_level == max_level(candidate_education)
        highest == CHOOSE i \in DOMAIN candidate_education :
                       hierarchy_get(candidate_education[i], 0) = candidate_level
    IN  IF candidate_level >= required_level
        THEN IF first_entry_raises(candidate_education) THEN IndexError
             ELSE [raised |-> FALSE, score |-> 95,
                   assessment |-> [kind |-> "Meets or exceeds requirement",
                                   entry |-> candidate_education[highest]]]
        ELSE IF candidate_level = required_level - 1
        THEN IF first_entry_raises(candidate_education) THEN IndexError
             ELSE [raised |-> FALSE, score |-> 70,
                   assessment |-> [kind |-> "One level below requirement",
                                   entry |-> candidate_education[1]]]
        ELSE [raised |-> FALSE,
              score |-> Min(Max(0, 50 - (required_level - candidate_level) * 15), 100),
              assessment |-> [kind |-> "Below requirement",
                              entry |-> IF candidate_education # <<>>
                                        THEN candidate_education[1]
                                        ELSE "Not specified"]]

\* the below-requirement branch without max(0, ...)
calculate_education_score_nofloor(candidate_education, minimum_education) ==
    LET required_level == hierarchy_get(minimum_education, 3)
        candidate_level == max_level(candidate_education)
    IN  IF candidate_level >= required_level
        THEN IF first_entry_raises(candidate_education) THEN IndexError
             ELSE [raised |-> FALSE, score |-> 95,
                   assessment |-> [kind |-> "Meets or exceeds requirement",
                                   entry |-> candidate_education[1]]]
        ELSE IF candidate_level = required_level - 1
        THEN IF first_entry_raises(candidate_education) THEN IndexError
             ELSE [raised |-> FALSE, score |-> 70,
                   assessment |-> [kind |-> "One level below requirement",
                                   entry |-> candidate_education[1]]]
        ELSE [raised |-> FALSE,
              score |-> Min(50 - (required_level - candidate_level) * 15, 100),
              assessment |-> [kind |-> "Below requirement",
                              entry |-> IF candidate_education # <<>>
                                        THEN candidate_education[1]
                                        ELSE "Not specified"]]

\* a penalty of 10 per level instead of 15
calculate_education_score_step10(candidate_education, minimum_education) ==
    LET required_level == hierarchy_get(minimum_education, 3)
        candidate_level == max_level(candidate_education)
    IN  IF candidate_level >= required_level
        THEN IF first_entry_raises(candidate_education) THEN IndexError
             ELSE [raised |-> FALSE, score |-> 95,
                   assessment |-> [kind |-> "Meets or exceeds requirement",
                                   entry |-> candidate_education[1]]]
        ELSE IF candidate_level = required_level - 1
        THEN IF first_entry_raises(candidate_education) THEN IndexError
             ELSE [raised |-> FALSE, score |-> 70,
                   assessment |-> [kind |-> "One level below requirement",
                                   entry |-> candidate_education[1]]]
        ELSE [raised |-> FALSE,
              score |-> Min(Max(0, 50 - (required_level - candidate_level) * 10), 100),
              assessment |-> [kind |-> "Below requirement",
                              entry |-> IF candidate_education # <<>>
                                        THEN candidate_education[1]
                                        ELSE "Not specified"]]

calculate_education_score(candidate_education, minimum_education) ==
    LET required_level == hierarchy_get(minimum_education, 3)
        candidate_level == max_level(candidate_education)
    IN  IF candidate_level >= required_level
        THEN IF first_entry_raises(candidate_education) THEN IndexError
             ELSE [raised |-> FALSE, score |-> Min(95, 100),
                   assessment |-> [kind |-> "Meets or exceeds requirement",
                                   entry |-> candidate_education[1]]]
        ELSE IF candidate_level = required_level - 1
        THEN IF first_entry_raises(candidate_education) THEN IndexError
             ELSE [raised |-> FALSE, score |-> Min(70, 100),
                   assessment |-> [kind |-> "One level below requirement",
                                   entry |-> candidate_education[1]]]
        ELSE [raised |-> FALSE,
              score |-> Min(Max(0, 50 - (required_level - candidate_level) * 15), 100),
              assessment |-> [kind |-> "Below requirement",
                              entry |-> IF candidate_education # <<>>
                                        THEN candidate_education[1]
                                        ELSE "Not specified"]]

(***************************************************************************)
(* Strings as sequences of characters                                      *)
(***************************************************************************)
\* str.lower() on one character
LowerChar(c) ==
    CASE c = "A" -> "a"
      [] c = "B" -> "b"
      [] c = "C" -> "c"
      [] c = "D" -> "d"
      [] c = "E" -> "e"
      [] c = "F" -> "f"
      [] c = "G" -> "g"
      [] c = "H" -> "h"
      [] c = "I" -> "i"
      [] c = "J" -> "j"
      [] c = "K" -> "k"
      [] c = "L" -> "l"
      [] c = "M" -> "m"
      [] c = "N" -> "n"
      [] c = "O" -> "o"
      [] c = "P" -> "p"
      [] c = "Q" -> "q"
      [] c = "R" -> "r"
      [] c = "S" -> "s"
      [] c = "T" -> "t"
      [] c = "U" -> "u"
      [] c = "V" -> "v"
      [] c = "W" -> "w"
      [] c = "X" -> "x"
      [] c = "Y" -> "y"
      [] c = "Z" -> "z"
      [] OTHER -> c

\* str.lower()
lower(str) == [i \in DOMAIN str |-> LowerChar(str[i])]

\* the Python test "needle in hay" on strings
str_in(needle, hay) ==
    \E i \in 0..(Len(hay) - Len(needle)) :
        SubSeq(hay, i + 1, i + Len(needle)) = needle

\* str(list_of_str): "['a', 'b']"
RECURSIVE join_repr(_)
join_repr(items) ==
    IF items = <<>> THEN <<>>
    ELSE <<"'">> \o Head(items) \o <<"'">> \o
         (IF Tail(items) = <<>> THEN <<>> ELSE <<",", " ">> \o join_repr(Tail(items)))

py_str(items) == <<"[">> \o join_repr(items) \o <<"]">>

(***************************************************************************)
(* Skill strings                                                           *)
(***************************************************************************)
\* skill names: a lower-case name, the same name in upper case, and a longer
\* name that contains it
SkillNames ==
    {<<"g", "a">>, <<"G", "A">>, <<"g", "a", "c">>}

(***************************************************************************)
(* calculate_skill_match_score                                             *)
(***************************************************************************)
\* a rational number n/d, d > 0
Rat(n, d) == [n |-> n, d |-> d]
RatAdd(x, y) == Rat(x.n * y.d + y.n * x.d, x.d * y.d)
RatScale(x, k) == Rat(x.n * k, x.d)

\* containment accepted in either direction
skill_matches_either(job_skill, candidate_skills) ==
    \E k \in DOMAIN candidate_skills :
        \/ str_in(lower(job_skill), lower(candidate_skills[k]))
        \/ str_in(lower(candidate_skills[k]), lower(job_skill))

\* any(job_lower in cand_skill.lower() for cand_skill in candidate_skills)
skill_matches(job_skill, candidate_skills) ==
    LET job_lower == lower(job_skill)
    IN  \E k \in DOMAIN candidate_skills :
            str_in(job_lower, lower(candidate_skills[k]))

\* "s not in matched": list membership by value
in_list(s, list) == \E k \in DOMAIN list : list[k] = s

\* the missing skills as a set difference: a skill listed twice is kept once
missing_from_dedup(required_skills, matched_required) ==
    LET IsFirstMissing(i) ==
            /\ ~in_list(required_skills[i], matched_required)
            /\ \A k \in 1..(i - 1) : required_skills[k] # required_skills[i]
        F[i \in 0..Len(required_skills)] ==
            IF i = 0 THEN <<>>
            ELSE IF IsFirstMissing(i) THEN Append(F[i - 1], required_skills[i])
            ELSE F[i - 1]
    IN  F[Len(required_skills)]

\* [s for s in required_skills if s not in matched_required]
missing_from(required_skills, matched_required) ==
    LET IsMissing(s) == ~in_list(s, matched_required)
    IN  SelectSeq(required_skills, IsMissing)

\* an empty job list counted as fully matched
match_rate_one(matched, job_list) ==
    IF job_list # <<>> THEN Rat(Len(matched), Len(job_list)) ELSE Rat(1, 1)

\* len(matched) / len(job_list) if job_list else 0
match_rate(matched, job_list) ==
    IF job_list # <<>> THEN Rat(Len(matched), Len(job_list)) ELSE Rat(0, 1)

\* a matcher that counts the nice-to-have skills among the preferred ones
calculate_skill_match_score_nice(candidate_skills, required_skills, preferred_skills, nice_to_have) ==
    LET IsMatched(s) == skill_matches(s, candidate_skills)
        matched_required == SelectSeq(required_skills, IsMatched)
        missing_required == missing_from(required_skills, matched_required)
        matched_preferred == SelectSeq(preferred_skills \o nice_to_have, IsMatched)
        required_match_rate == match_rate(matched_required, required_skills)
        preferred_match_rate == match_rate(matched_preferred,
                                           preferred_skills \o nice_to_have)
        skill_score == RatAdd(RatScale(required_match_rate, 70),
                              RatScale(preferred_match_rate, 30))
    IN  [raised |-> FALSE,
         skill_score |-> skill_score,
         matched_required |-> matched_required,
         missing_required |-> missing_required,
         matched_preferred |-> matched_preferred]

\* nice_to_have is a parameter that the body never reads
calculate_skill_match_score(candidate_skills, required_skills, preferred_skills, nice_to_have) ==
    LET IsMatched(s) == skill_matches(s, candidate_skills)
        matched_required == SelectSeq(required_skills, IsMatched)
        missing_required == missing_from(required_skills, matched_required)
        matched_preferred == SelectSeq(preferred_skills, IsMatched)
        required_match_rate == match_rate(matched_required, required_skills)
        preferred_match_rate == match_rate(matched_preferred, preferred_skills)
        skill_score == RatAdd(RatScale(required_match_rate, 70),
                              RatScale(preferred_match_rate, 30))
    IN  [raised |-> FALSE,
         skill_score |-> skill_score,
         matched_required |-> matched_required,
         missing_required |-> missing_required,
         matched_preferred |-> matched_preferred]

(***************************************************************************)
(* score_candidate                                                         *)
(*                                                                         *)
(* A weight is held in hundredths (0.35 is 35).  Scores in the returned    *)
(* dictionary are held in tenths of a point, as round(x, 1) leaves them.   *)
(***************************************************************************)
soft_skills_keywords ==
    {<<"l", "e", "a", "d", "e", "r", "s", "h", "i", "p">>,
     <<"c", "o", "m", "m", "u", "n", "i", "c", "a", "t", "i", "o", "n">>,
     <<"c", "o", "l", "l", "a", "b", "o", "r", "a", "t", "i", "o", "n">>,
     <<"m", "a", "n", "a", "g", "e", "m", "e", "n", "t">>,
     <<"t", "e", "a", "m">>}

role_keywords ==
    {<<"m", "a", "n", "a", "g", "e", "r">>,
     <<"l", "e", "a", "d">>,
     <<"d", "i", "r", "e", "c", "t", "o", "r">>}

\* a soft-skill assessment that gives a leading role the full 100 points
soft_skill_score_role100(candidate_data) ==
    LET from_summary ==
            IF \E kw \in soft_skills_keywords :
                   str_in(kw, lower(candidate_data.summary))
            THEN 80 ELSE 60
    IN  IF \E kw \in role_keywords :
               str_in(kw, lower(py_str(candidate_data.past_roles)))
        THEN 100 ELSE from_summary

\* a soft-skill assessment that looks at the experience score when that
\* scorer has already run: full experience counts as seniority
soft_skill_score_reads_experience(candidate_data) ==
    LET from_summary ==
            IF \E kw \in soft_skills_keywords :
                   str_in(kw, lower(candidate_data.summary))
            THEN 80 ELSE 60
        senior == "experience" \in task.done /\ task.experience.score >= 100
    IN  IF senior \/ \E kw \in role_keywords :
                         str_in(kw, lower(py_str(candidate_data.past_roles)))
        THEN 90 ELSE from_summary

\* the two tests in the other order: a keyword in the summary wins over a role
soft_skill_score_summary_first(candidate_data) ==
    IF \E kw \in soft_skills_keywords :
           str_in(kw, lower(candidate_data.summary))
    THEN 80
    ELSE IF \E kw \in role_keywords :
                str_in(kw, lower(py_str(candidate_data.past_roles)))
         THEN 90 ELSE 60

\* the soft skills assessment of score_candidate
soft_skill_score(candidate_data) ==
    LET from_summary ==
            IF \E kw \in soft_skills_keywords :
                   str_in(kw, lower(candidate_data.summary))
            THEN 80 ELSE 60
    IN  IF \E kw \in role_keywords :
               str_in(kw, lower(py_str(candidate_data.past_roles)))
        THEN 90 ELSE from_summary

\* round(x, 1) of a non-negative x, in tenths.  The float that stands for x
\* lies within rounding error of x, so when x is exactly halfway between two
\* tenths either neighbour can come out.
round_tenths(x) ==
    LET q == (10 * x.n) \div x.d
        r == (10 * x.n) % x.d
    IN  IF 2 * r < x.d THEN {q}
        ELSE IF 2 * r > x.d THEN {q + 1}
        ELSE {q, q + 1}

\* the preferred-skills term at full strength, without the factor 0.5
weighted_overall_full(skill_score, exp_score, edu_score, soft_skill_score_, weights) ==
    Rat(skill_score.n * (2 * weights.required_skills_weight
                           + 2 * weights.preferred_skills_weight)
        + 2 * skill_score.d * (exp_score * weights.experience_weight
                               + edu_score * weights.education_weight
                               + soft_skill_score_ * weights.soft_skills_weight),
        200 * skill_score.d)

\* the weighted sum of score_candidate, over the common denominator
\* 200 * skill_score.d:
\*   skill * w_req / 100 + skill * w_pref / 100 * 0.5
\*     = skill.n * (2 * w_req + w_pref) / (200 * skill.d)
\*   (exp * w_exp + edu * w_edu + soft * w_soft) / 100
\*     = 2 * skill.d * (...) / (200 * skill.d)
weighted_overall(skill_score, exp_score, edu_score, soft_skill_score_, weights) ==
    Rat(skill_score.n * (2 * weights.required_skills_weight
                           + weights.preferred_skills_weight)
        + 2 * skill_score.d * (exp_score * weights.experience_weight
                               + edu_score * weights.education_weight
                               + soft_skill_score_ * weights.soft_skills_weight),
        200 * skill_score.d)

\* the dictionaries that the return statement of score_candidate can build from
\* the four component results
score_result(skill, exp, edu, soft_skill_score_, weights) ==
    LET overall_score ==
            weighted_overall(skill.skill_score, exp.score, edu.score,
                             soft_skill_score_, weights)
    IN  {[raised |-> FALSE,
          overall_score |-> o,
          skills_score |-> s,
          experience_score |-> 10 * exp.score,
          education_score |-> 10 * edu.score,
          matched_required_skills |-> skill.matched_required,
          missing_required_skills |-> skill.missing_required,
          matched_preferred_skills |-> skill.matched_preferred,
          experience_assessment |-> exp.assessment,
          education_assessment |-> edu.assessment] :
             o \in round_tenths(overall_score),
             s \in round_tenths(skill.skill_score)}

\* the outcomes score_candidate can have: the returned dictionary, or the
\* exception that calculate_education_score raised
score_candidate(candidate_data, job_requirements, weights) ==
    LET skill == calculate_skill_match_score(
                     candidate_data.skills,
                     job_requirements.required_skills,
                     job_requirements.preferred_skills,
                     job_requirements.nice_to_have_skills)
        exp == calculate_experience_score(
                     candidate_data.experience_years,
                     job_requirements.minimum_experience_years)
        edu == calculate_education_score(
                     candidate_data.education,
                     job_requirements.minimum_education)
    IN  IF edu.raised THEN {edu}
        ELSE score_result(skill, exp, edu, soft_skill_score(candidate_data), weights)

(***************************************************************************)
(* generate_recommendation                                                 *)
(*                                                                         *)
(* overall_score is held in tenths of a point (the scorer rounds it to one *)
(* decimal place), so 80 is 800.  candidate_data is never read by the code.*)
(***************************************************************************)
\* missing_required[:2]
first_two(missing_required) ==
    SubSeq(missing_required, 1, Min(2, Len(missing_required)))

\* ">" where the first tier has ">= 80"
generate_recommendation_strict(scoring_results) ==
    LET overall_score == scoring_results.overall_score
        missing_required == scoring_results.missing_required_skills
    IN  IF overall_score > 800 /\ Len(missing_required) = 0
        THEN [raised |-> FALSE,
              recommendation |-> "hire",
              confidence |-> IF overall_score >= 900 THEN "high" ELSE "medium",
              reasoning |-> [template |-> "Strong candidate",
                             score |-> overall_score, skills |-> <<>>]]
        ELSE IF overall_score >= 700 /\ Len(missing_required) <= 1
        THEN [raised |-> FALSE,
              recommendation |-> "review",
              confidence |-> "medium",
              reasoning |-> IF missing_required # <<>>
                            THEN [template |-> "Solid candidate",
                                  score |-> overall_score,
                                  skills |-> <<missing_required[1]>>]
                            ELSE [template |-> "Good candidate",
                                  score |-> overall_score, skills |-> <<>>]]
        ELSE IF overall_score >= 600
        THEN [raised |-> FALSE,
              recommendation |-> "review",
              confidence |-> "low",
              reasoning |-> [template |-> "Moderate candidate",
                             score |-> overall_score, skills |-> <<>>]]
        ELSE [raised |-> FALSE,
              recommendation |-> "pass",
              confidence |-> "high",
              reasoning |-> [template |-> "Does not meet minimum requirements",
                             score |-> overall_score,
                             skills |-> first_two(missing_required)]]

\* the third tier as a band: "review" only for an overall score from 60 up to 70
generate_recommendation_band(scoring_results) ==
    LET overall_score == scoring_results.overall_score
        missing_required == scoring_results.missing_required_skills
    IN  IF overall_score >= 800 /\ Len(missing_required) = 0
        THEN [raised |-> FALSE,
              recommendation |-> "hire",
              confidence |-> IF overall_score >= 900 THEN "high" ELSE "medium",
              reasoning |-> [template |-> "Strong candidate",
                             score |-> overall_score, skills |-> <<>>]]
        ELSE IF overall_score >= 700 /\ Len(missing_required) <= 1
        THEN [raised |-> FALSE,
              recommendation |-> "review",
              confidence |-> "medium",
              reasoning |-> IF missing_required # <<>>
                            THEN [template |-> "Solid candidate",
                                  score |-> overall_score,
                                  skills |-> <<missing_required[1]>>]
                            ELSE [template |-> "Good candidate",
                                  score |-> overall_score, skills |-> <<>>]]
        ELSE IF overall_score >= 600 /\ overall_score < 700
        THEN [raised |-> FALSE,
              recommendation |-> "review",
              confidence |-> "low",
              reasoning |-> [template |-> "Moderate candidate",
                             score |-> overall_score, skills |-> <<>>]]
        ELSE [raised |-> FALSE,
              recommendation |-> "pass",
              confidence |-> "high",
              reasoning |-> [template |-> "Does not meet minimum requirements",
                             score |-> overall_score,
                             skills |-> first_two(missing_required)]]

\* a first tier that does not look at the missing required skills
generate_recommendation_score_only(scoring_results) ==
    LET overall_score == scoring_results.overall_score
        missing_required == scoring_results.missing_required_skills
    IN  IF overall_score >= 800
        THEN [raised |-> FALSE,
              recommendation |-> "hire",
              confidence |-> IF overall_score >= 900 THEN "high" ELSE "medium",
              reasoning |-> [template |-> "Strong candidate",
                             score |-> overall_score, skills |-> <<>>]]
        ELSE IF overall_score >= 700 /\ Len(missing_required) <= 1
        THEN [raised |-> FALSE,
              recommendation |-> "review",
              confidence |-> "medium",
              reasoning |-> IF missing_required # <<>>
                            THEN [template |-> "Solid candidate",
                                  score |-> overall_score,
                                  skills |-> <<missing_required[1]>>]
                            ELSE [template |-> "Good candidate",
                                  score |-> overall_score, skills |-> <<>>]]
        ELSE IF overall_score >= 600
        THEN [raised |-> FALSE,
              recommendation |-> "review",
              confidence |-> "low",
              reasoning |-> [template |-> "Moderate candidate",
                             score |-> overall_score, skills |-> <<>>]]
        ELSE [raised |-> FALSE,
              recommendation |-> "pass",
              confidence |-> "high",
              reasoning |-> [template |-> "Does not meet minimum requirements",
                             score |-> overall_score,
                             skills |-> first_two(missing_required)]]

\* the chain without its final else: recommendation is then unbound at the return
generate_recommendation_noelse(scoring_results) ==
    LET overall_score == scoring_results.overall_score
        missing_required == scoring_results.missing_required_skills
    IN  IF overall_score >= 800 /\ Len(missing_required) = 0
        THEN [raised |-> FALSE,
              recommendation |-> "hire",
              confidence |-> IF overall_score >= 900 THEN "high" ELSE "medium",
              reasoning |-> [template |-> "Strong candidate",
                             score |-> overall_score, skills |-> <<>>]]
        ELSE IF overall_score >= 700 /\ Len(missing_required) <= 1
        THEN [raised |-> FALSE,
              recommendation |-> "review",
              confidence |-> "medium",
              reasoning |-> IF missing_required # <<>>
                            THEN [template |-> "Solid candidate",
                                  score |-> overall_score,
                                  skills |-> <<missing_required[1]>>]
                            ELSE [template |-> "Good candidate",
                                  score |-> overall_score, skills |-> <<>>]]
        ELSE IF overall_score >= 600
        THEN [raised |-> FALSE,
              recommendation |-> "review",
              confidence |-> "low",
              reasoning |-> [template |-> "Moderate candidate",
                             score |-> overall_score, skills |-> <<>>]]
        ELSE [raised |-> TRUE, exception |-> "UnboundLocalError"]

generate_recommendation(scoring_results) ==
    LET overall_score == scoring_results.overall_score
        missing_required == scoring_results.missing_required_skills
    IN  IF overall_score >= 800 /\ Len(missing_required) = 0
        THEN [raised |-> FALSE,
              recommendation |-> "hire",
              confidence |-> IF overall_score >= 900 THEN "high" ELSE "medium",
              reasoning |-> [template |-> "Strong candidate",
                             score |-> overall_score, skills |-> <<>>]]
        ELSE IF overall_score >= 700 /\ Len(missing_required) <= 1
        THEN [raised |-> FALSE,
              recommendation |-> "review",
              confidence |-> "medium",
              reasoning |-> IF missing_required # <<>>
                            THEN [template |-> "Solid candidate",
                                  score |-> overall_score,
                                  skills |-> <<missing_required[1]>>]
                            ELSE [template |-> "Good candidate",
                                  score |-> overall_score, skills |-> <<>>]]
        ELSE IF overall_score >= 600
        THEN [raised |-> FALSE,
              recommendation |-> "review",
              confidence |-> "low",
              reasoning |-> [template |-> "Moderate candidate",
                             score |-> overall_score, skills |-> <<>>]]
        ELSE [raised |-> FALSE,
              recommendation |-> "pass",
              confidence |-> "high",
              reasoning |-> [template |-> "Does not meet minimum requirements",
                             score |-> overall_score,
                             skills |-> first_two(missing_required)]]

(***************************************************************************)
(* Candidate extraction                                                    *)
(*                                                                         *)
(* A resume text is a sequence of lines.  A line is held as what the       *)
(* patterns of extract_candidate_data_demo find in it: the name, e-mail,   *)
(* phone and years matches (a sequence of no or one match), the skill      *)
(* keywords and degree words that occur in it, and the role it names (the  *)
(* text before '|' when the line has a role keyword and a '|').            *)
(***************************************************************************)
\* an optional value: None, or a value that is present
None == [present |-> FALSE, value |-> ""]
Some(v) == [present |-> TRUE, value |-> v]

\* "Jane Doe"
NameLine ==
    [name_match |-> <<"Jane Doe">>, email_match |-> <<>>, phone_match |-> <<>>,
     keywords |-> {}, years_match |-> <<>>, words |-> {}, role |-> <<>>]

\* "jane@acme.io | 555-123-4567"
ContactLine ==
    [name_match |-> <<>>, email_match |-> <<"jane@acme.io">>,
     phone_match |-> <<"555-123-4567">>,
     keywords |-> {}, years_match |-> <<>>, words |-> {}, role |-> <<>>]

\* "MBA and B.S., Python, SEO"
DegreeLine ==
    [name_match |-> <<>>, email_match |-> <<>>, phone_match |-> <<>>,
     keywords |-> {<<"p", "y", "t", "h", "o", "n">>, <<"s", "e", "o">>},
     years_match |-> <<>>, words |-> {"MBA", "B.S."}, role |-> <<>>]

\* "7 years of leadership"
YearsLine ==
    [name_match |-> <<>>, email_match |-> <<>>, phone_match |-> <<>>,
     keywords |-> {<<"l", "e", "a", "d", "e", "r", "s", "h", "i", "p">>},
     years_match |-> <<7>>, words |-> {}, role |-> <<>>]

\* "2 years, Associate"
JuniorLine ==
    [name_match |-> <<>>, email_match |-> <<>>, phone_match |-> <<>>,
     keywords |-> {}, years_match |-> <<2>>, words |-> {"Associate"}, role |-> <<>>]

\* "Marketing Manager | Acme": two capitalised words at the start of a line,
\* which the name pattern matches as well
ManagerLine ==
    [name_match |-> <<"Marketing Manager">>, email_match |-> <<>>,
     phone_match |-> <<>>, keywords |-> {}, years_match |-> <<>>, words |-> {},
     role |-> << <<"M", "a", "r", "k", "e", "t", "i", "n", "g", " ", "M", "a", "n", "a", "g", "e", "r">> >>]

\* "SEO Analyst | Beta"
AnalystLine ==
    [name_match |-> <<>>, email_match |-> <<>>, phone_match |-> <<>>,
     keywords |-> {<<"s", "e", "o">>}, years_match |-> <<>>, words |-> {},
     role |-> << <<"S", "E", "O", " ", "A", "n", "a", "l", "y", "s", "t">> >>]

\* the resume texts offered to the extraction
Resumes ==
    {<<>>,
     <<NameLine, ContactLine, DegreeLine, YearsLine, ManagerLine>>,
     <<ManagerLine, NameLine, JuniorLine>>,
     <<NameLine, AnalystLine, ManagerLine, AnalystLine, ManagerLine>>}

\* re.search over the text: the match in the first line that has one
first_match(resume_text, pattern) ==
    LET lines == {i \in DOMAIN resume_text : resume_text[i][pattern] # <<>>}
    IN  IF lines = {} THEN <<>>
        ELSE resume_text[CHOOSE i \in lines : \A k \in lines : i <= k][pattern]

skills_keywords == <<
    <<"d", "i", "g", "i", "t", "a", "l", " ", "m", "a", "r", "k", "e", "t", "i", "n", "g">>,
    <<"a", "n", "a", "l", "y", "t", "i", "c", "s">>,
    <<"c", "o", "n", "t", "e", "n", "t", " ", "m", "a", "r", "k", "e", "t", "i", "n", "g">>,
    <<"s", "e", "o">>,
    <<"e", "m", "a", "i", "l", " ", "m", "a", "r", "k", "e", "t", "i", "n", "g">>,
    <<"s", "o", "c", "i", "a", "l", " ", "m", "e", "d", "i", "a">>,
    <<"m", "a", "r", "k", "e", "t", "i", "n", "g", " ", "a", "u", "t", "o", "m", "a", "t", "i", "o", "n">>,
    <<"h", "u", "b", "s", "p", "o", "t">>,
    <<"g", "o", "o", "g", "l", "e", " ", "a", "n", "a", "l", "y", "t", "i", "c", "s">>,
    <<"d", "a", "t", "a", " ", "a", "n", "a", "l", "y", "s", "i", "s">>,
    <<"a", "/", "b", " ", "t", "e", "s", "t", "i", "n", "g">>,
    <<"p", "y", "t", "h", "o", "n">>,
    <<"f", "i", "g", "m", "a">>,
    <<"s", "a", "l", "e", "s", "f", "o", "r", "c", "e">>,
    <<"c", "r", "m">>,
    <<"e", "x", "c", "e", "l">>,
    <<"c", "a", "n", "v", "a">>,
    <<"c", "o", "p", "y", "w", "r", "i", "t", "i", "n", "g">>,
    <<"m", "a", "r", "k", "e", "t", " ", "r", "e", "s", "e", "a", "r", "c", "h">>,
    <<"p", "r", "o", "j", "e", "c", "t", " ", "m", "a", "n", "a", "g", "e", "m", "e", "n", "t">>,
    <<"l", "e", "a", "d", "e", "r", "s", "h", "i", "p">>,
    <<"c", "o", "m", "m", "u", "n", "i", "c", "a", "t", "i", "o", "n">> >>

\* the roles of the lines that name one, in line order
RECURSIVE roles_of(_)
roles_of(resume_text) ==
    IF resume_text = <<>> THEN <<>>
    ELSE Head(resume_text).role \o roles_of(Tail(resume_text))

summary_default == <<
    "E", "x", "p", "e", "r", "i", "e", "n", "c", "e", "d", " ", "p", "r",
    "o", "f", "e", "s", "s", "i", "o", "n", "a", "l", " ", "w", "i", "t",
    "h", " ", "d", "e", "m", "o", "n", "s", "t", "r", "a", "t", "e", "d",
    " ", "e", "x", "p", "e", "r", "t", "i", "s", "e", " ", "i", "n", " ",
    "m", "a", "r", "k", "e", "t", "i", "n", "g", " ", "a", "n", "d", " ",
    "b", "u", "s", "i", "n", "e", "s", "s", " ", "o", "p", "e", "r", "a",
    "t", "i", "o", "n", "s", "." >>

summary_years_head == <<
    "R", "e", "s", "u", "l", "t", "s", "-", "d", "r", "i", "v", "e", "n",
    " ", "p", "r", "o", "f", "e", "s", "s", "i", "o", "n", "a", "l", " ",
    "w", "i", "t", "h", " " >>

summary_years_tail == <<
    "+", " ", "y", "e", "a", "r", "s", " ", "o", "f", " ", "m", "a", "r",
    "k", "e", "t", "i", "n", "g", " ", "e", "x", "p", "e", "r", "i", "e",
    "n", "c", "e", " ", "a", "n", "d", " ", "p", "r", "o", "v", "e", "n",
    " ", "s", "u", "c", "c", "e", "s", "s", " ", "i", "n", " ", "c", "a",
    "m", "p", "a", "i", "g", "n", " ", "m", "a", "n", "a", "g", "e", "m",
    "e", "n", "t", " ", "a", "n", "d", " ", "s", "t", "r", "a", "t", "e",
    "g", "y", "." >>

\* str(n) for a natural number
RECURSIVE digits(_)
digits(n) ==
    LET d == <<"0", "1", "2", "3", "4", "5", "6", "7", "8", "9">>
    IN  IF n < 10 THEN <<d[n + 1]>> ELSE digits(n \div 10) \o <<d[(n % 10) + 1]>>

extract_candidate_data_demo(resume_text) ==
    LET name_match == first_match(resume_text, "name_match")
        email_match == first_match(resume_text, "email_match")
        phone_match == first_match(resume_text, "phone_match")
        exp_match == first_match(resume_text, "years_match")
        Occurs(s) == \E i \in DOMAIN resume_text : s \in resume_text[i].keywords
        Has(word) == \E i \in DOMAIN resume_text : word \in resume_text[i].words
        experience_years == IF exp_match # <<>> THEN exp_match[1] ELSE 0
        masters == IF Has("MBA") \/ Has("Master")
                   THEN <<"Master's Degree">> ELSE <<>>
        bachelors == IF Has("Bachelor") \/ Has("B.S.") \/ Has("B.A.")
                     THEN <<"Bachelor's Degree">> ELSE <<>>
        associate == IF Has("Associate") THEN <<"Associate Degree">> ELSE <<>>
        degrees == masters \o bachelors \o associate
        past_roles == roles_of(resume_text)
    IN  [name |-> IF name_match # <<>> THEN name_match[1] ELSE "Unknown Candidate",
         email |-> IF email_match # <<>> THEN email_match[1] ELSE "unknown@email.com",
         phone |-> IF phone_match # <<>> THEN Some(phone_match[1]) ELSE None,
         skills |-> SelectSeq(skills_keywords, Occurs),
         experience_years |-> experience_years,
         education |-> IF degrees = <<>> THEN <<"High School or Certificate">>
                       ELSE degrees,
         past_roles |-> SubSeq(past_roles, 1, Min(3, Len(past_roles))),
         summary |-> IF experience_years >= 5
                     THEN summary_years_head \o digits(experience_years)
                          \o summary_years_tail
                     ELSE summary_default]

(***************************************************************************)
(* The external service                                                    *)
(*                                                                         *)
(* The text of a response is a sequence of tokens: the markdown code fence *)
(* of three backquotes, the word "json", white space, and JSON texts.  The *)
(* environment of a call says whether the anthropic package can be        *)
(* imported, what ANTHROPIC_API_KEY holds, and what the service does when  *)
(* it is used.                                                             *)
(***************************************************************************)
\* the three backquotes that open or close a markdown code block
Fence == "fence"

\* JSON texts: an object with every candidate field, an empty object, an
\* object whose experience_years is not a number, an array of five
\* strings, an array of two strings, and a text that is not JSON
JsonTexts == {"{full}", "{}", "{bad}", "[five]", "[two]"}

Tokens == {Fence, "json", " ", "not json"} \cup JsonTexts

\* str.strip()
RECURSIVE lstrip(_)
lstrip(text) ==
    IF text # <<>> /\ Head(text) = " " THEN lstrip(Tail(text)) ELSE text

RECURSIVE rstrip(_)
rstrip(text) ==
    IF text # <<>> /\ text[Len(text)] = " "
    THEN rstrip(SubSeq(text, 1, Len(text) - 1)) ELSE text

strip(text) == rstrip(lstrip(text))

startswith(text, prefix) == text # <<>> /\ Head(text) = prefix

\* text.split(fence)[1] of a text that holds a fence: what lies between the
\* first fence and the next one (or the end)
RECURSIVE up_to_fence(_)
up_to_fence(text) ==
    IF text = <<>> \/ Head(text) = Fence THEN <<>>
    ELSE <<Head(text)>> \o up_to_fence(Tail(text))

RECURSIVE after_fence(_)
after_fence(text) ==
    IF Head(text) = Fence THEN Tail(text) ELSE after_fence(Tail(text))

split_fence_1(text) == up_to_fence(after_fence(text))

\* lines 258-264 and 604-611: the response text without its markdown fence
clean_response(text) ==
    LET response_text == strip(text)
        inner == split_fence_1(response_text)
    IN  IF startswith(response_text, Fence)
        THEN strip(IF startswith(inner, "json") THEN Tail(inner) ELSE inner)
        ELSE response_text

\* a JSON value with its type
JsonInt(n) == [t |-> "int", v |-> n]
JsonStr(s) == [t |-> "str", v |-> 0]     \* no number is read from a string

full_object ==
    [name |-> "Ann Lee",
     email |-> "ann@beta.org",
     phone |-> Some("555-000-1111"),
     skills |-> << <<"s", "q", "l">>, <<"p", "y", "t", "h", "o", "n">> >>,
     experience_years |-> JsonInt(6),
     education |-> <<"PhD">>,
     past_roles |-> << <<"T", "e", "a", "m", " ", "L", "e", "a", "d">> >>,
     summary |-> <<"t", "e", "a", "m", " ", "p", "l", "a", "y", "e", "r">>]

bad_object == [experience_years |-> JsonStr("many")]

empty_object == [k \in {} |-> 0]

\* a question: the template it is built from and the texts put into it
Question(template, args) == [template |-> template, args |-> args]

five_questions == [i \in 1..5 |-> Question("from the service", <<digits(i)>>)]

two_questions == [i \in 1..2 |-> Question("from the service", <<digits(i)>>)]

\* json.loads: white space around one JSON text is allowed, anything else
\* raises json.JSONDecodeError
json_loads(text) ==
    LET s == strip(text)
    IN  IF Len(s) = 1 /\ s[1] \in JsonTexts
        THEN [raised |-> FALSE,
              type |-> IF s[1] \in {"[five]", "[two]"} THEN "list" ELSE "dict",
              dict |-> CASE s[1] = "{full}" -> full_object
                         [] s[1] = "{bad}" -> bad_object
                         [] OTHER -> empty_object,
              list |-> CASE s[1] = "[five]" -> five_questions
                         [] s[1] = "[two]" -> two_questions
                         [] OTHER -> <<>>]
        ELSE [raised |-> TRUE, exception |-> "JSONDecodeError"]

\* dict.get(key, default)
get(dict, key, default) == IF key \in DOMAIN dict THEN dict[key] ELSE default

\* what the service does when it is used: the client cannot be built, the
\* request raises, or a message comes back with no or one content block
ServiceOutcomes ==
    {[kind |-> "client_error", content |-> <<>>],
     [kind |-> "api_error", content |-> <<>>],
     [kind |-> "message", content |-> <<>>]}
    \cup {[kind |-> "message", content |-> <<text>>] :
              text \in SeqsUpTo(Tokens, MaxTokens)}

ApiKeys == {None, Some(""), Some("sk-key")}

Envs ==
    [anthropic_installed : BOOLEAN,
     ANTHROPIC_API_KEY : ApiKeys,
     service : ServiceOutcomes]

\* os.environ.get("ANTHROPIC_API_KEY") is truthy
key_available(env) ==
    env.ANTHROPIC_API_KEY.present /\ env.ANTHROPIC_API_KEY.value # ""

\* lines 231-276: the body of the try block; service_called says whether
\* client.messages.create was invoked
extract_with_service(env) ==
    LET service == env.service
        extracted == json_loads(clean_response(service.content[1]))
        years == get(extracted.dict, "experience_years", JsonInt(0))
    IN  IF service.kind = "client_error"
        THEN [raised |-> TRUE, exception |-> "AnthropicError", service_called |-> FALSE]
        ELSE IF service.kind = "api_error"
        THEN [raised |-> TRUE, exception |-> "APIError", service_called |-> TRUE]
        ELSE IF service.content = <<>>
        THEN [raised |-> TRUE, exception |-> "IndexError", service_called |-> TRUE]
        ELSE IF extracted.raised
        THEN [raised |-> TRUE, exception |-> "JSONDecodeError", service_called |-> TRUE]
        ELSE IF extracted.type # "dict"
        THEN [raised |-> TRUE, exception |-> "AttributeError", service_called |-> TRUE]
        ELSE IF years.t # "int"
        THEN [raised |-> TRUE, exception |-> "ValueError", service_called |-> TRUE]
        ELSE [raised |-> FALSE,
              service_called |-> TRUE,
              value |-> [name |-> get(extracted.dict, "name", "Unknown"),
                         email |-> get(extracted.dict, "email", "unknown@email.com"),
                         phone |-> get(extracted.dict, "phone", None),
                         skills |-> get(extracted.dict, "skills", <<>>),
                         experience_years |-> years.v,
                         education |-> get(extracted.dict, "education", <<>>),
                         past_roles |-> get(extracted.dict, "past_roles", <<>>),
                         summary |-> get(extracted.dict, "summary", <<>>)]]

\* an except clause that catches json.JSONDecodeError only
extract_candidate_data_with_claude_decode_only(resume_text, env) ==
    LET demo == [raised |-> FALSE, source |-> "demo", service_called |-> FALSE,
                 value |-> extract_candidate_data_demo(resume_text)]
        tried == extract_with_service(env)
    IN  IF ~env.anthropic_installed THEN demo
        ELSE IF ~key_available(env) THEN demo
        ELSE IF tried.raised
        THEN IF tried.exception = "JSONDecodeError"
             THEN [demo EXCEPT !.service_called = tried.service_called]
             ELSE tried
        ELSE [raised |-> FALSE, source |-> "claude",
              service_called |-> TRUE, value |-> tried.value]

extract_candidate_data_with_claude(resume_text, env) ==
    LET demo == [raised |-> FALSE, source |-> "demo", service_called |-> FALSE,
                 value |-> extract_candidate_data_demo(resume_text)]
        tried == extract_with_service(env)
    IN  IF ~env.anthropic_installed THEN demo
        ELSE IF ~key_available(env) THEN demo
        ELSE IF tried.raised
        THEN [demo EXCEPT !.service_called = tried.service_called]
        ELSE [raised |-> FALSE, source |-> "claude",
              service_called |-> TRUE, value |-> tried.value]

(***************************************************************************)
(* Interview questions                                                     *)
(***************************************************************************)
_generate_questions_template(candidate_data, job_requirements, scoring_results) ==
    LET missing_skills == scoring_results.missing_required_skills
        roles == lower(py_str(candidate_data.past_roles))
        core == Question("most successful project", <<lower(job_requirements.title)>>)
        depth == IF candidate_data.experience_years >= 5
                 THEN Question("evolved your approach", <<>>)
                 ELSE Question("modern best practices", <<>>)
        gaps == IF missing_skills # <<>>
                THEN Question("approach learning",
                              <<IF candidate_data.skills # <<>>
                                THEN candidate_data.skills[1]
                                ELSE <<"m", "a", "r", "k", "e", "t", "i", "n", "g">>,
                                missing_skills[1]>>)
                ELSE Question("outside your comfort zone", <<>>)
        team == IF str_in(<<"l", "e", "a", "d">>, roles) \/ str_in(<<"m", "a", "n", "a", "g", "e", "r">>, roles)
                THEN Question("leadership style", <<>>)
                ELSE Question("collaborated", <<>>)
        culture == Question("what attracts you", <<>>)
    IN  <<core, depth, gaps, team, culture>>

\* the call raises, or returns the parsed list, or the template questions
\* when the parsed value is not a list
_generate_questions_with_claude(candidate_data, job_requirements, scoring_results, env) ==
    LET service == env.service
        questions == json_loads(clean_response(service.content[1]))
    IN  IF service.kind = "client_error"
        THEN [raised |-> TRUE, exception |-> "AnthropicError", service_called |-> FALSE]
        ELSE IF service.kind = "api_error"
        THEN [raised |-> TRUE, exception |-> "APIError", service_called |-> TRUE]
        ELSE IF service.content = <<>>
        THEN [raised |-> TRUE, exception |-> "IndexError", service_called |-> TRUE]
        ELSE IF questions.raised
        THEN [raised |-> TRUE, exception |-> "JSONDecodeError", service_called |-> TRUE]
        ELSE IF questions.type = "list"
        THEN [raised |-> FALSE, source |-> "claude", service_called |-> TRUE,
              value |-> questions.list]
        ELSE [raised |-> FALSE, source |-> "template", service_called |-> TRUE,
              value |-> _generate_questions_template(
                            candidate_data, job_requirements, scoring_results)]

\* an except clause that catches ImportError only
generate_interview_questions_import_only(candidate_data, job_requirements, scoring_results, api_fallback, env) ==
    LET template == [raised |-> FALSE, source |-> "template", service_called |-> FALSE,
                     value |-> _generate_questions_template(
                                   candidate_data, job_requirements, scoring_results)]
        tried == _generate_questions_with_claude(
                     candidate_data, job_requirements, scoring_results, env)
    IN  IF api_fallback THEN template
        ELSE IF ~env.anthropic_installed THEN template
        ELSE IF ~key_available(env) THEN template
        ELSE tried

generate_interview_questions(candidate_data, job_requirements, scoring_results, api_fallback, env) ==
    LET template == [raised |-> FALSE, source |-> "template", service_called |-> FALSE,
                     value |-> _generate_questions_template(
                                   candidate_data, job_requirements, scoring_results)]
        tried == _generate_questions_with_claude(
                     candidate_data, job_requirements, scoring_results, env)
    IN  IF api_fallback THEN template
        ELSE IF ~env.anthropic_installed THEN template
        ELSE IF ~key_available(env) THEN template
        ELSE IF tried.raised
        THEN [template EXCEPT !.service_called = tried.service_called]
        ELSE tried

(***************************************************************************)
(* screen_candidate                                                        *)
(*                                                                         *)
(* The pipeline: extraction, scoring, interview questions, recommendation  *)
(* and the report.  The screening date of the report is left out.          *)
(***************************************************************************)
\* the report built from the results of the four steps (lines 759-792)
screening_report(candidate_data, job_requirements, scoring_results, interview_questions, rec) ==
    [raised |-> FALSE,
     candidate_name |-> candidate_data.name,
     candidate_email |-> candidate_data.email,
     job_title |-> job_requirements.title,
     overall_score |-> scoring_results.overall_score,
     skills_score |-> scoring_results.skills_score,
     experience_score |-> scoring_results.experience_score,
     education_score |-> scoring_results.education_score,
     matched_required_skills |-> scoring_results.matched_required_skills,
     missing_required_skills |-> scoring_results.missing_required_skills,
     matched_preferred_skills |-> scoring_results.matched_preferred_skills,
     experience_assessment |-> scoring_results.experience_assessment,
     education_assessment |-> scoring_results.education_assessment,
     recommendation |-> rec.recommendation,
     confidence |-> rec.confidence,
     reasoning |-> rec.reasoning,
     interview_questions |-> interview_questions,
     extracted_candidate_data |-> candidate_data]

\* the reports screen_candidate can return (one, or two when the overall
\* score lies on a rounding tie), or the exception of score_candidate;
\* env is the environment of the extraction, questions_env that of the
\* question generation
screen_candidate(resume_text, job_requirements, scoring_weights, env, questions_env) ==
    LET candidate_data == extract_candidate_data_with_claude(resume_text, env).value
        Report(scoring_results) ==
            IF scoring_results.raised THEN scoring_results
            ELSE screening_report(
                     candidate_data, job_requirements, scoring_results,
                     generate_interview_questions(
                         candidate_data, job_requirements, scoring_results,
                         FALSE, questions_env).value,
                     generate_recommendation(scoring_results))
    IN  {Report(scoring_results) :
             scoring_results \in score_candidate(candidate_data, job_requirements,
                                                 scoring_weights)}

(***************************************************************************)
(* State machine: calls of the scorers                                     *)
(***************************************************************************)
Init ==
    /\ exp_call = NoCall
    /\ exp_prev = NoCall
    /\ edu_call = NoCall
    /\ skill_call = NoCall
    /\ score_call = NoCall
    /\ rec_call = NoCall
    /\ rec_count = 0
    /\ rec_log = <<>>
    /\ task = IdleTask
    /\ extract_call = NoCall
    /\ questions_call = NoCall
    /\ report = NoCall

CalcExperience ==
    \E candidate_years \in 0..MaxYears, minimum_required \in 0..MaxYears :
        /\ exp_prev' = exp_call
        /\ exp_call' = [called |-> TRUE,
                        candidate_years |-> candidate_years,
                        minimum_required |-> minimum_required,
                        ret |-> calculate_experience_score(candidate_years,
                                                           minimum_required)]
        /\ UNCHANGED <<edu_call, skill_call, score_call, rec_call, rec_count, rec_log, task,
                   extract_call, questions_call, report>>

CalcEducation ==
    \E candidate_education \in SeqsUpTo(EducationLabels, MaxEdu),
       minimum_education \in EducationLabels :
        /\ edu_call' = [called |-> TRUE,
                        candidate_education |-> candidate_education,
                        minimum_education |-> minimum_education,
                        ret |-> calculate_education_score(candidate_education,
                                                          minimum_education)]
        /\ UNCHANGED <<exp_call, exp_prev, skill_call, score_call, rec_call, rec_count, rec_log, task,
                   extract_call, questions_call, report>>

\* overall scores offered to generate_recommendation, in tenths: every whole
\* score up to MaxOverall and the value one tenth below it, which puts both
\* sides of every threshold of the tiers in the set
OverallScores == {o \in 0..MaxOverall : o % 10 \in {0, 9}}

\* the missing_required_skills lists offered: the first 0..MaxMissing skills of
\* a required list none of whose skills the candidate has
MissingOrder == << <<"g", "a", "c">>, <<"s">>, <<"g", "a">>, <<"G", "A">> >>

MissingLists == {SubSeq(MissingOrder, 1, Min(k, Len(MissingOrder))) : k \in 0..MaxMissing}

\* one invocation of generate_recommendation; the caller receives the returned
\* triple, or nothing when the call raises
GenerateRecommendation ==
    /\ rec_count < MaxRecCalls
    /\ \E overall_score \in OverallScores,
          missing_required \in MissingLists :
        LET scoring_results == [overall_score |-> overall_score,
                                missing_required_skills |-> missing_required]
            ret == generate_recommendation(scoring_results)
        IN  /\ rec_count' = rec_count + 1
            /\ rec_call' = [called |-> TRUE,
                            scoring_results |-> scoring_results,
                            ret |-> ret]
            /\ rec_log' = IF ret.raised THEN rec_log
                          ELSE Append(rec_log, ret.recommendation)
            /\ UNCHANGED <<exp_call, exp_prev, edu_call, skill_call, score_call, task,
                   extract_call, questions_call, report>>

\* skill names of a nice_to_have list
NiceNames == {<<"s">>}

\* one call of calculate_skill_match_score per behaviour
CalcSkillMatch ==
    /\ ~skill_call.called
    /\ \E candidate_skills \in SeqsUpTo(SkillNames, MaxCandSkills),
          required_skills \in SeqsUpTo(SkillNames, MaxReqSkills),
          preferred_skills \in SeqsUpTo(SkillNames, MaxPrefSkills),
          nice_to_have \in SeqsUpTo(NiceNames, MaxNice) :
        /\ skill_call' = [called |-> TRUE,
                          candidate_skills |-> candidate_skills,
                          required_skills |-> required_skills,
                          preferred_skills |-> preferred_skills,
                          nice_to_have |-> nice_to_have,
                          ret |-> calculate_skill_match_score(
                                      candidate_skills, required_skills,
                                      preferred_skills, nice_to_have)]
        /\ UNCHANGED <<exp_call, exp_prev, edu_call, score_call, rec_call, rec_count, rec_log, task,
                   extract_call, questions_call, report>>

\* candidates offered to score_candidate
ScoreCandidates ==
    [skills : {<<>>, << <<"G", "A">> >>, << <<"g", "a", "c">> >>},
     experience_years : {0, 2, MaxYears},
     education : {<<>>, <<"PhD">>, <<UnrecognizedLabel, "Associate Degree">>},
     past_roles : {<<>>, << <<"T", "e", "a", "m", " ", "L", "e", "a", "d">> >>},
     summary : {<<>>, <<"t", "e", "a", "m", " ", "p", "l", "a", "y", "e", "r">>}]

\* job profiles offered to score_candidate
ScoreJobs ==
    [required_skills : {<<>>, << <<"g", "a">> >>,
                        << <<"g", "a">>, <<"g", "a", "c">>, <<"G", "A">> >>},
     preferred_skills : {<<>>, << <<"g", "a", "c">> >>,
                         << <<"G", "A">>, <<"g", "a", "c">> >>},
     nice_to_have_skills : {<<>>},
     minimum_experience_years : {0, MaxYears},
     minimum_education : {"High School or Certificate", "Bachelor's Degree",
                          "PhD", UnrecognizedLabel}]

WeightNames ==
    {"required_skills_weight", "preferred_skills_weight", "experience_weight",
     "education_weight", "soft_skills_weight"}

weight_sum(weights) ==
    weights.required_skills_weight + weights.preferred_skills_weight
    + weights.experience_weight + weights.education_weight
    + weights.soft_skills_weight

SCORING_WEIGHTS ==
    [required_skills_weight |-> 35, preferred_skills_weight |-> 20,
     experience_weight |-> 25, education_weight |-> 10, soft_skills_weight |-> 10]

TECHNICAL_ROLE_WEIGHTS ==
    [required_skills_weight |-> 45, preferred_skills_weight |-> 25,
     experience_weight |-> 15, education_weight |-> 5, soft_skills_weight |-> 10]

MANAGEMENT_ROLE_WEIGHTS ==
    [required_skills_weight |-> 30, preferred_skills_weight |-> 15,
     experience_weight |-> 25, education_weight |-> 15, soft_skills_weight |-> 15]

ENTRY_LEVEL_WEIGHTS ==
    [required_skills_weight |-> 25, preferred_skills_weight |-> 15,
     experience_weight |-> 15, education_weight |-> 25, soft_skills_weight |-> 20]

\* weight configurations offered to score_candidate: the configurations of
\* the repository, every configuration of weights 0, 0.5 and 1.0 that sums
\* to 1.0, and one that does not sum to 1.0 (the code accepts any weights)
ScoreWeights ==
    {SCORING_WEIGHTS, TECHNICAL_ROLE_WEIGHTS, MANAGEMENT_ROLE_WEIGHTS,
     ENTRY_LEVEL_WEIGHTS}
    \cup {w \in [WeightNames -> {0, 50, 100}] : weight_sum(w) = 100}
    \cup {[n \in WeightNames |-> 100]}

\* one call of score_candidate per behaviour
ScoreCandidate ==
    /\ ~score_call.called
    /\ \E candidate_data \in ScoreCandidates, job_requirements \in ScoreJobs,
          weights \in ScoreWeights :
         \E ret \in score_candidate(candidate_data, job_requirements, weights) :
            /\ score_call' = [called |-> TRUE,
                              candidate_data |-> candidate_data,
                              job_requirements |-> job_requirements,
                              weights |-> weights,
                              ret |-> ret]
            /\ UNCHANGED <<exp_call, exp_prev, edu_call, skill_call,
                           rec_call, rec_count, rec_log, task,
                   extract_call, questions_call, report>>

\* past roles and summaries offered to the soft-skill assessment
RoleNames ==
    {<<"T", "e", "a", "m", " ", "L", "e", "a", "d">>,
     <<"C", "l", "e", "r", "k">>,
     <<"D", "I", "R", "E", "C", "T", "O", "R">>,
     <<"S", "a", "l", "e", "s", " ", "M", "a", "n", "a", "g", "e", "r">>}

Summaries ==
    {<<>>,
     <<"T", "e", "a", "m", " ", "w", "o", "r", "k">>,
     <<"m", "a", "n", "a", "g", "e", "m", "e", "n", "t">>,
     <<"t", "e", "a">>}

SoftCandidates ==
    [skills : {<<>>},
     experience_years : {0},
     education : {<<"PhD">>},
     past_roles : SeqsUpTo(RoleNames, MaxRoles),
     summary : Summaries]

SoftJob ==
    [required_skills |-> <<>>, preferred_skills |-> <<>>,
     nice_to_have_skills |-> <<>>, minimum_experience_years |-> 0,
     minimum_education |-> "Bachelor's Degree"]

\* all the weight on the soft-skill score: the overall score then is that score
SoftOnlyWeights ==
    [required_skills_weight |-> 0, preferred_skills_weight |-> 0,
     experience_weight |-> 0, education_weight |-> 0, soft_skills_weight |-> 100]

\* one call of score_candidate per behaviour, over summaries and past roles
ScoreCandidateSoft ==
    /\ ~score_call.called
    /\ \E candidate_data \in SoftCandidates,
          weights \in {SoftOnlyWeights, SCORING_WEIGHTS} :
         \E ret \in score_candidate(candidate_data, SoftJob, weights) :
            /\ score_call' = [called |-> TRUE,
                              candidate_data |-> candidate_data,
                              job_requirements |-> SoftJob,
                              weights |-> weights,
                              ret |-> ret]
            /\ UNCHANGED <<exp_call, exp_prev, edu_call, skill_call,
                           rec_call, rec_count, rec_log, task,
                   extract_call, questions_call, report>>

SpecSoft == Init /\ [][ScoreCandidateSoft]_vars
(***************************************************************************)
(* One scoring with the four component scorers of score_candidate run in   *)
(* any order.  The source runs them in the order skill, experience,        *)
(* education, soft skills and then computes the weighted sum.              *)
(***************************************************************************)
TaskCandidates ==
    [skills : {<<>>, << <<"g", "a", "c">> >>},
     experience_years : {0, MaxYears},
     education : {<<>>, <<"PhD">>},
     past_roles : {<<>>},
     summary : {<<>>, <<"t", "e", "a", "m", " ", "p", "l", "a", "y", "e", "r">>}]

TaskJobs ==
    [required_skills : {<< <<"g", "a">> >>},
     preferred_skills : {<<>>},
     nice_to_have_skills : {<<>>},
     minimum_experience_years : {2},
     minimum_education : {"High School or Certificate", "Bachelor's Degree"}]

\* score_candidate is entered with its three arguments
StartScoring ==
    /\ ~task.started
    /\ \E candidate_data \in TaskCandidates, job_requirements \in TaskJobs,
          weights \in {SCORING_WEIGHTS, SoftOnlyWeights} :
         task' = [started |-> TRUE, done |-> {}, order |-> <<>>, failed |-> FALSE,
                  aggregated |-> FALSE,
                  candidate_data |-> candidate_data,
                  job_requirements |-> job_requirements,
                  weights |-> weights,
                  skill |-> Pending, experience |-> Pending,
                  education |-> Pending, soft |-> Pending, result |-> Pending]
    /\ UNCHANGED <<exp_call, exp_prev, edu_call, skill_call, score_call,
                   rec_call, rec_count, rec_log,
                   extract_call, questions_call, report>>

Runnable(component) ==
    /\ task.started
    /\ ~task.failed
    /\ ~task.aggregated
    /\ component \notin task.done

\* lines 476-481
EvalSkill ==
    /\ Runnable("skill")
    /\ task' = [task EXCEPT
                  !.skill = calculate_skill_match_score(
                                task.candidate_data.skills,
                                task.job_requirements.required_skills,
                                task.job_requirements.preferred_skills,
                                task.job_requirements.nice_to_have_skills),
                  !.done = @ \cup {"skill"},
                  !.order = Append(@, "skill")]
    /\ UNCHANGED <<exp_call, exp_prev, edu_call, skill_call, score_call,
                   rec_call, rec_count, rec_log,
                   extract_call, questions_call, report>>

\* lines 484-487
EvalExperience ==
    /\ Runnable("experience")
    /\ task' = [task EXCEPT
                  !.experience = calculate_experience_score(
                                     task.candidate_data.experience_years,
                                     task.job_requirements.minimum_experience_years),
                  !.done = @ \cup {"experience"},
                  !.order = Append(@, "experience")]
    /\ UNCHANGED <<exp_call, exp_prev, edu_call, skill_call, score_call,
                   rec_call, rec_count, rec_log,
                   extract_call, questions_call, report>>

\* lines 490-493; an exception of the scorer ends the scoring
EvalEducation ==
    /\ Runnable("education")
    /\ LET edu == calculate_education_score(task.candidate_data.education,
                                            task.job_requirements.minimum_education)
       IN  task' = [task EXCEPT !.education = edu,
                                !.failed = edu.raised,
                                !.done = @ \cup {"education"},
                                !.order = Append(@, "education")]
    /\ UNCHANGED <<exp_call, exp_prev, edu_call, skill_call, score_call,
                   rec_call, rec_count, rec_log,
                   extract_call, questions_call, report>>

\* lines 495-501
EvalSoft ==
    /\ Runnable("soft")
    /\ task' = [task EXCEPT
                  !.soft = [score |-> soft_skill_score(task.candidate_data)],
                  !.done = @ \cup {"soft"},
                  !.order = Append(@, "soft")]
    /\ UNCHANGED <<exp_call, exp_prev, edu_call, skill_call, score_call,
                   rec_call, rec_count, rec_log,
                   extract_call, questions_call, report>>

\* lines 503-522: the weighted sum needs the four results
Aggregate ==
    /\ task.started
    /\ ~task.failed
    /\ ~task.aggregated
    /\ task.done = Components
    /\ \E ret \in score_result(task.skill, task.experience, task.education,
                               task.soft.score, task.weights) :
         task' = [task EXCEPT !.result = ret, !.aggregated = TRUE]
    /\ UNCHANGED <<exp_call, exp_prev, edu_call, skill_call, score_call,
                   rec_call, rec_count, rec_log,
                   extract_call, questions_call, report>>

NextInterleaved ==
    \/ StartScoring
    \/ EvalSkill
    \/ EvalExperience
    \/ EvalEducation
    \/ EvalSoft
    \/ Aggregate

SpecInterleaved == Init /\ [][NextInterleaved]_vars

(***************************************************************************)
(* score_candidate for jobs that list nice-to-have skills                  *)
(***************************************************************************)
NiceSkillNames == {<<"g", "a">>, <<"s">>}

NiceLists == SeqsUpTo(NiceSkillNames, MaxNice)

NiceCandidates ==
    [skills : {<<>>, << <<"g", "a", "c">> >>, << <<"s">> >>},
     experience_years : {0, MaxYears},
     education : {<<"PhD">>},
     past_roles : {<<>>},
     summary : {<<>>}]

NiceJobs ==
    [required_skills : {<<>>, << <<"G", "A">> >>},
     preferred_skills : {<<>>, << <<"s">> >>},
     nice_to_have_skills : NiceLists,
     minimum_experience_years : {2},
     minimum_education : {"Bachelor's Degree"}]

ScoreCandidateNice ==
    /\ ~score_call.called
    /\ \E candidate_data \in NiceCandidates, job_requirements \in NiceJobs,
          weights \in {SCORING_WEIGHTS, TECHNICAL_ROLE_WEIGHTS} :
         \E ret \in score_candidate(candidate_data, job_requirements, weights) :
            /\ score_call' = [called |-> TRUE,
                              candidate_data |-> candidate_data,
                              job_requirements |-> job_requirements,
                              weights |-> weights,
                              ret |-> ret]
            /\ UNCHANGED <<exp_call, exp_prev, edu_call, skill_call,
                           rec_call, rec_count, rec_log, task,
                   extract_call, questions_call, report>>

SpecNice == Init /\ [][ScoreCandidateNice]_vars

\* one call of extract_candidate_data_with_claude per behaviour
ExtractCandidateData ==
    /\ ~extract_call.called
    /\ \E resume_text \in Resumes, env \in Envs :
         extract_call' = [called |-> TRUE,
                          resume_text |-> resume_text,
                          env |-> env,
                          ret |-> extract_candidate_data_with_claude(resume_text, env)]
    /\ UNCHANGED <<exp_call, exp_prev, edu_call, skill_call, score_call,
                   rec_call, rec_count, rec_log, task, questions_call, report>>

SpecExtract == Init /\ [][ExtractCandidateData]_vars

\* candidates, job and scoring results offered to generate_interview_questions
QuestionCandidates ==
    {[skills |-> <<>>, experience_years |-> 4, past_roles |-> <<>>],
     [skills |-> << <<"p", "y", "t", "h", "o", "n">> >>, experience_years |-> 5,
      past_roles |-> << <<"T", "e", "a", "m", " ", "L", "e", "a", "d">> >>]}

QuestionJob == [title |-> <<"M", "a", "r", "k", "e", "t", "i", "n", "g", " ", "M", "a", "n", "a", "g", "e", "r">>]

QuestionScorings ==
    [missing_required_skills : {<<>>, << <<"s", "e", "o">> >>}]

\* one call of generate_interview_questions per behaviour
GenerateQuestions ==
    /\ ~questions_call.called
    /\ \E candidate_data \in QuestionCandidates,
          scoring_results \in QuestionScorings,
          api_fallback \in BOOLEAN, env \in Envs :
         questions_call' =
             [called |-> TRUE,
              candidate_data |-> candidate_data,
              job_requirements |-> QuestionJob,
              scoring_results |-> scoring_results,
              api_fallback |-> api_fallback,
              env |-> env,
              ret |-> generate_interview_questions(
                          candidate_data, QuestionJob, scoring_results,
                          api_fallback, env)]
    /\ UNCHANGED <<exp_call, exp_prev, edu_call, skill_call, score_call,
                   rec_call, rec_count, rec_log, task, extract_call, report>>

SpecQuestions == Init /\ [][GenerateQuestions]_vars

\* job profiles offered to screen_candidate
PipelineJobs ==
    [title : {<<"A", "n", "a", "l", "y", "s", "t">>},
     required_skills : {<<>>, << <<"P", "y", "t", "h", "o", "n">> >>,
                        << <<"p", "y", "t", "h", "o", "n">>, <<"t", "a", "b", "l", "e", "a", "u">> >>},
     preferred_skills : {<< <<"s", "e", "o">> >>},
     nice_to_have_skills : {<<>>},
     minimum_experience_years : {5},
     minimum_education : {"High School or Certificate", "Bachelor's Degree"}]

\* what the service does in a screening: it fails, or it answers with one
\* JSON text
PipelineServices ==
    {[kind |-> "api_error", content |-> <<>>]}
    \cup {[kind |-> "message", content |-> << <<text>> >>] : text \in JsonTexts}

PipelineEnvs ==
    [anthropic_installed : {TRUE},
     ANTHROPIC_API_KEY : {None, Some("sk-key")},
     service : PipelineServices]

\* one run of screen_candidate per behaviour
ScreenCandidate ==
    /\ ~report.called
    /\ \E resume_text \in Resumes, job_requirements \in PipelineJobs,
          scoring_weights \in ScoreWeights, env \in PipelineEnvs,
          questions_service \in PipelineServices :
         \E ret \in screen_candidate(resume_text, job_requirements, scoring_weights,
                                     env, [env EXCEPT !.service = questions_service]) :
            report' = [called |-> TRUE,
                       resume_text |-> resume_text,
                       job_requirements |-> job_requirements,
                       scoring_weights |-> scoring_weights,
                       env |-> env,
                       questions_service |-> questions_service,
                       ret |-> ret]
    /\ UNCHANGED <<exp_call, exp_prev, edu_call, skill_call, score_call,
                   rec_call, rec_count, rec_log, task, extract_call,
                   questions_call>>

SpecPipeline == Init /\ [][ScreenCandidate]_vars

SpecExperience == Init /\ [][CalcExperience]_vars
SpecEducation == Init /\ [][CalcEducation]_vars
SpecSkills == Init /\ [][CalcSkillMatch]_vars
SpecScore == Init /\ [][ScoreCandidate]_vars
SpecRecommendation == Init /\ [][GenerateRecommendation]_vars

(***************************************************************************)
(* Properties of generate_recommendation                                   *)
(***************************************************************************)
Recommendations == {"hire", "review", "pass"}

\* C1: generate_recommendation returns the outcome of the first matching tier:
\* (overall >= 80 and nothing missing) -> hire, with confidence high if
\* overall >= 90 else medium; (overall >= 70 and at most one missing) ->
\* review/medium; (overall >= 60) -> review/low; otherwise pass/high.
C1_FirstMatchingTier ==
    rec_call.called =>
        LET o == rec_call.scoring_results.overall_score
            n == Len(rec_call.scoring_results.missing_required_skills)
            r == rec_call.ret
            T1 == o >= 800 /\ n = 0
            T2 == o >= 700 /\ n <= 1
            T3 == o >= 600
        IN  /\ ~r.raised
            /\ T1 => /\ r.recommendation = "hire"
                      /\ r.confidence = (IF o >= 900 THEN "high" ELSE "medium")
            /\ (~T1 /\ T2) => (r.recommendation = "review" /\ r.confidence = "medium")
            /\ (~T1 /\ ~T2 /\ T3) => (r.recommendation = "review" /\ r.confidence = "low")
            /\ (~T1 /\ ~T2 /\ ~T3) => (r.recommendation = "pass" /\ r.confidence = "high")

\* Scenario C: overall 85 with nothing missing is hire/medium
C1_Witness ==
    /\ rec_call.called
    /\ rec_call.scoring_results.overall_score = 850
    /\ rec_call.scoring_results.missing_required_skills = <<>>
    /\ rec_call.ret.recommendation = "hire"
    /\ rec_call.ret.confidence = "medium"

LevelOfList(candidate_education) ==
    LET S == {hierarchy_get(candidate_education[i], 0) :
                 i \in DOMAIN candidate_education} \cup {0}
    IN  CHOOSE m \in S : \A x \in S : x <= m

\* C4: calculate_education_score returns a (score, assessment) pair without
\* raising for every education list, the empty one included, and every
\* minimum-education label.
C4_EducationTotal ==
    edu_call.called => ~edu_call.ret.raised

\* C5 as stated: the empty education list against "Bachelor's Degree" scores 0.
C5_EmptyVsBachelorIsZero ==
    (/\ edu_call.called
     /\ edu_call.candidate_education = <<>>
     /\ edu_call.minimum_education = "Bachelor's Degree")
    => (~edu_call.ret.raised /\ edu_call.ret.score = 0)

\* C5 amended: the empty education list against "Bachelor's Degree"
\* (levels 0 and 3) scores max(0, 50 - 3 * 15) = 5, assessed as
\* "Below requirement: Not specified".
C5_EmptyVsBachelorIsFive ==
    (/\ edu_call.called
     /\ edu_call.candidate_education = <<>>
     /\ edu_call.minimum_education = "Bachelor's Degree")
    => /\ ~edu_call.ret.raised
       /\ edu_call.ret.score = 5
       /\ edu_call.ret.assessment =
              [kind |-> "Below requirement", entry |-> "Not specified"]

C5_Witness ==
    /\ edu_call.called
    /\ edu_call.candidate_education = <<>>
    /\ edu_call.minimum_education = "Bachelor's Degree"
    /\ ~edu_call.ret.raised

\* C6: candidate level >= required level scores 95, candidate level =
\* required level - 1 scores 70, anything lower scores
\* max(0, 50 - 15 * (required level - candidate level)).
C6_LevelsToScores ==
    edu_call.called =>
        LET c == LevelOfList(edu_call.candidate_education)
            r == IF edu_call.minimum_education \in HierarchyLabels
                 THEN education_hierarchy(edu_call.minimum_education) ELSE 3
        IN  /\ ~edu_call.ret.raised
            /\ edu_call.ret.score =
                  (IF c >= r THEN 95
                   ELSE IF c = r - 1 THEN 70
                   ELSE Max(0, 50 - 15 * (r - c)))

(***************************************************************************)
(* Properties of calculate_experience_score                                *)
(***************************************************************************)
\* C7: for a fixed minimum_required the score is non-decreasing in
\* candidate_years: of two calls with the same minimum, the one with fewer
\* years never scores higher.
C7_ExperienceMonotone ==
    (exp_call.called /\ exp_prev.called
       /\ exp_call.minimum_required = exp_prev.minimum_required)
    => /\ (exp_prev.candidate_years <= exp_call.candidate_years
             => exp_prev.ret.score <= exp_call.ret.score)
       /\ (exp_call.candidate_years <= exp_prev.candidate_years
             => exp_call.ret.score <= exp_prev.ret.score)

\* two calls across the boundary: one year short, then exactly the minimum
C7_Witness ==
    /\ exp_call.called /\ exp_prev.called
    /\ exp_call.minimum_required = exp_prev.minimum_required
    /\ exp_prev.candidate_years + 1 = exp_call.minimum_required
    /\ exp_call.candidate_years = exp_call.minimum_required
    /\ exp_prev.ret.score < exp_call.ret.score

\* C8: the score is 80 + min(5 * (years - minimum), 20) with a "Meets
\* requirement" assessment when years >= minimum, and
\* max(0, 80 - 15 * (minimum - years)) with a "Below target" assessment
\* otherwise.
C8_ExperienceFormula ==
    exp_call.called =>
        LET y == exp_call.candidate_years
            m == exp_call.minimum_required
            surplus == 5 * (y - m)
            deficit == 80 - 15 * (m - y)
        IN  IF y >= m
            THEN /\ exp_call.ret.score = 80 + (IF surplus < 20 THEN surplus ELSE 20)
                 /\ exp_call.ret.assessment.kind = "Meets requirement"
                 /\ exp_call.ret.assessment.years = y
            ELSE /\ exp_call.ret.score = (IF deficit > 0 THEN deficit ELSE 0)
                 /\ exp_call.ret.assessment.kind = "Below target"
                 /\ exp_call.ret.assessment.years = y
                 /\ exp_call.ret.assessment.required = m

\* Scenario A: 7 years against a minimum of 5 gives 90
C8_Witness ==
    /\ exp_call.called
    /\ exp_call.candidate_years = 7
    /\ exp_call.minimum_required = 5
    /\ exp_call.ret.score = 90
    /\ exp_call.ret.assessment.kind = "Meets requirement"

(***************************************************************************)
(* Properties of calculate_skill_match_score                               *)
(***************************************************************************)
\* the two cases of one letter, for the letters of SkillNames
SameLetter(a, b) ==
    \/ a = b
    \/ {a, b} \in {{"g", "G"}, {"a", "A"}, {"c", "C"}, {"s", "S"}}

\* job occurs in cand as a substring when case is ignored
ContainsIgnoringCase(job, cand) ==
    \E off \in 0..(Len(cand) - Len(job)) :
        \A k \in 1..Len(job) : SameLetter(job[k], cand[off + k])

SomeCandidateContains(job, candidate_skills) ==
    \E k \in DOMAIN candidate_skills :
        ContainsIgnoringCase(job, candidate_skills[k])

\* positions of job_list whose skill some candidate skill contains
MatchedPositions(job_list, candidate_skills) ==
    {i \in DOMAIN job_list : SomeCandidateContains(job_list[i], candidate_skills)}

\* C9: a required or preferred job skill is reported as matched if and only
\* if some candidate skill contains it as a case-insensitive substring; a
\* candidate skill that is only a part of the job skill gives no match.
C9_MatchIsContainment ==
    skill_call.called =>
        /\ \A i \in DOMAIN skill_call.required_skills :
               in_list(skill_call.required_skills[i], skill_call.ret.matched_required)
               <=> SomeCandidateContains(skill_call.required_skills[i],
                                         skill_call.candidate_skills)
        /\ \A i \in DOMAIN skill_call.preferred_skills :
               in_list(skill_call.preferred_skills[i], skill_call.ret.matched_preferred)
               <=> SomeCandidateContains(skill_call.preferred_skills[i],
                                         skill_call.candidate_skills)

\* candidate "GA" against required "ga" (matched, case ignored) and "gac"
\* (not matched: the candidate skill is only a part of it)
C9_Witness ==
    /\ skill_call.called
    /\ skill_call.candidate_skills = << <<"G", "A">> >>
    /\ skill_call.required_skills = << <<"g", "a">>, <<"g", "a", "c">> >>
    /\ skill_call.ret.matched_required = << <<"g", "a">> >>
    /\ skill_call.ret.missing_required = << <<"g", "a", "c">> >>

\* C10: the skill score is requiredMatchRate * 70 + preferredMatchRate * 30,
\* each rate being matched / length of the job list and 0 for an empty job
\* list, without raising; with an empty required list the score is at most 30.
C10_SkillScoreFormula ==
    skill_call.called =>
        LET req == skill_call.required_skills
            pref == skill_call.preferred_skills
            cR == Cardinality(MatchedPositions(req, skill_call.candidate_skills))
            cP == Cardinality(MatchedPositions(pref, skill_call.candidate_skills))
            dR == IF Len(req) = 0 THEN 1 ELSE Len(req)
            dP == IF Len(pref) = 0 THEN 1 ELSE Len(pref)
            score == skill_call.ret.skill_score
        IN  /\ ~skill_call.ret.raised
            /\ score.d > 0
            /\ score.n * (dR * dP) = (70 * cR * dP + 30 * cP * dR) * score.d
            /\ (req = <<>>) => score.n <= 30 * score.d

\* no required skills, every preferred skill matched: the score is 30
C10_Witness ==
    /\ skill_call.called
    /\ skill_call.required_skills = <<>>
    /\ skill_call.preferred_skills # <<>>
    /\ skill_call.ret.matched_preferred = skill_call.preferred_skills
    /\ skill_call.ret.skill_score.n = 30 * skill_call.ret.skill_score.d

(***************************************************************************)
(* Properties of score_candidate                                           *)
(***************************************************************************)
\* C3: with five non-negative weights that sum to 1.0 the overall_score that
\* score_candidate returns lies in [0, 100].
C3_OverallInRange ==
    (/\ score_call.called
     /\ ~score_call.ret.raised
     /\ \A n \in WeightNames : score_call.weights[n] >= 0
     /\ weight_sum(score_call.weights) = 100)
    => (0 <= score_call.ret.overall_score /\ score_call.ret.overall_score <= 1000)

\* weights 0.5 on required skills and 0.5 on experience, every skill matched
\* and four or more years above the minimum: the overall score is 100.0
C3_Witness ==
    /\ score_call.called
    /\ ~score_call.ret.raised
    /\ weight_sum(score_call.weights) = 100
    /\ score_call.weights.required_skills_weight = 50
    /\ score_call.weights.experience_weight = 50
    /\ score_call.ret.overall_score = 1000

\* the entries of list at the positions of P, in list order
RECURSIVE PickPositions(_, _, _)
PickPositions(list, P, i) ==
    IF i > Len(list) THEN <<>>
    ELSE (IF i \in P THEN <<list[i]>> ELSE <<>>) \o PickPositions(list, P, i + 1)

\* C11: matched_required and missing_required partition required_skills: each
\* is the sub-list, in job-list order, of the matched resp. unmatched
\* positions, no skill is in both, and their lengths add up to the length of
\* required_skills, duplicate entries included.
C11_MatchedMissingPartition ==
    skill_call.called =>
        LET req == skill_call.required_skills
            M == MatchedPositions(req, skill_call.candidate_skills)
            matched == skill_call.ret.matched_required
            missing == skill_call.ret.missing_required
        IN  /\ matched = PickPositions(req, M, 1)
            /\ missing = PickPositions(req, DOMAIN req \ M, 1)
            /\ Len(matched) + Len(missing) = Len(req)
            /\ \A i \in DOMAIN req : in_list(req[i], matched) # in_list(req[i], missing)

\* the same unmatched skill listed twice: both entries are reported missing
C11_Witness ==
    /\ skill_call.called
    /\ Len(skill_call.required_skills) = 2
    /\ skill_call.required_skills[1] = skill_call.required_skills[2]
    /\ skill_call.candidate_skills # <<>>
    /\ skill_call.ret.matched_required = <<>>
    /\ Len(skill_call.ret.missing_required) = 2

\* C12: the skill score, the experience score and the education score that
\* the core returns lie in [0, 100] (experience years are non-negative).
C12_ComponentScoresInRange ==
    (score_call.called /\ ~score_call.ret.raised)
    => /\ score_call.candidate_data.experience_years >= 0
       /\ 0 <= score_call.ret.skills_score /\ score_call.ret.skills_score <= 1000
       /\ 0 <= score_call.ret.experience_score /\ score_call.ret.experience_score <= 1000
       /\ 0 <= score_call.ret.education_score /\ score_call.ret.education_score <= 1000

\* the three components at their extremes in one call: every job skill
\* matched (100), experience far above the minimum (100, the bonus capped),
\* education four levels or more below the requirement (0, the floor)
C12_Witness ==
    /\ score_call.called
    /\ ~score_call.ret.raised
    /\ score_call.ret.skills_score = 1000
    /\ score_call.ret.experience_score = 1000
    /\ score_call.candidate_data.experience_years
         - score_call.job_requirements.minimum_experience_years > 4
    /\ score_call.ret.education_score = 0
    /\ score_call.job_requirements.minimum_education = "PhD"

\* the unrounded component scores of the recorded score_candidate call
CallSkill ==
    calculate_skill_match_score(score_call.candidate_data.skills,
                                score_call.job_requirements.required_skills,
                                score_call.job_requirements.preferred_skills,
                                score_call.job_requirements.nice_to_have_skills).skill_score

CallExp ==
    calculate_experience_score(score_call.candidate_data.experience_years,
                               score_call.job_requirements.minimum_experience_years).score

CallEdu ==
    calculate_education_score(score_call.candidate_data.education,
                              score_call.job_requirements.minimum_education).score

CallSoft == soft_skill_score(score_call.candidate_data)

Abs(x) == IF x >= 0 THEN x ELSE -x

\* C13: the overall score is skill * w_req + skill * w_pref * 0.5
\* + experience * w_exp + education * w_edu + soft * w_soft over the unrounded
\* component scores, rounded to one decimal place: the returned value is a
\* multiple of 0.1 at distance at most 0.05 from that sum.  With weights in
\* hundredths and skill = n/d the sum is S / (200 * d).
C13_OverallIsWeightedSum ==
    (score_call.called /\ ~score_call.ret.raised)
    => LET w == score_call.weights
           skill == CallSkill
           d == skill.d
           S == 2 * skill.n * w.required_skills_weight
                + skill.n * w.preferred_skills_weight
                + 2 * d * CallExp * w.experience_weight
                + 2 * d * CallEdu * w.education_weight
                + 2 * d * CallSoft * w.soft_skills_weight
       IN  2 * Abs(10 * S - score_call.ret.overall_score * 200 * d) <= 200 * d

\* a call with all five weights positive whose skill score is not a multiple
\* of 0.1 and whose overall score had to be rounded
C13_Witness ==
    /\ score_call.called
    /\ ~score_call.ret.raised
    /\ \A n \in WeightNames : score_call.weights[n] > 0
    /\ (10 * CallSkill.n) % CallSkill.d # 0
    /\ score_call.ret.overall_score * 20 * CallSkill.d
         # 2 * CallSkill.n * score_call.weights.required_skills_weight
           + CallSkill.n * score_call.weights.preferred_skills_weight
           + 2 * CallSkill.d * (CallExp * score_call.weights.experience_weight
                                + CallEdu * score_call.weights.education_weight
                                + CallSoft * score_call.weights.soft_skills_weight)

(***************************************************************************)
(* Properties of the soft-skill assessment                                 *)
(***************************************************************************)
SmallLetters == <<"a", "b", "c", "d", "e", "f", "g", "h", "i", "j", "k", "l", "m", "n", "o", "p", "q", "r", "s", "t", "u", "v", "w", "x", "y", "z">>

CapitalLetters == <<"A", "B", "C", "D", "E", "F", "G", "H", "I", "J", "K", "L", "M", "N", "O", "P", "Q", "R", "S", "T", "U", "V", "W", "X", "Y", "Z">>

\* the same letter in either case, or the same character
SameLetterAZ(a, b) ==
    \/ a = b
    \/ \E i \in 1..26 : {a, b} = {SmallLetters[i], CapitalLetters[i]}

\* word occurs in text as a substring when case is ignored
OccursIgnoringCase(word, text) ==
    \E off \in 0..(Len(text) - Len(word)) :
        \A k \in 1..Len(word) : SameLetterAZ(word[k], text[off + k])

\* the soft-skill score as the claim states it
ExpectedSoft(candidate_data) ==
    IF \E i \in DOMAIN candidate_data.past_roles :
          \E kw \in {<<"m", "a", "n", "a", "g", "e", "r">>, <<"l", "e", "a", "d">>, <<"d", "i", "r", "e", "c", "t", "o", "r">>} :
              OccursIgnoringCase(kw, candidate_data.past_roles[i])
    THEN 90
    ELSE IF \E kw \in {<<"l", "e", "a", "d", "e", "r", "s", "h", "i", "p">>,
                       <<"c", "o", "m", "m", "u", "n", "i", "c", "a", "t", "i", "o", "n">>,
                       <<"c", "o", "l", "l", "a", "b", "o", "r", "a", "t", "i", "o", "n">>,
                       <<"m", "a", "n", "a", "g", "e", "m", "e", "n", "t">>,
                       <<"t", "e", "a", "m">>} :
                OccursIgnoringCase(kw, candidate_data.summary)
    THEN 80
    ELSE 60

\* C14: the soft-skill score is 90 if a past role contains manager, lead or
\* director in any case, whatever the summary; otherwise 80 if the summary
\* contains one of the five keywords; otherwise 60, also for an empty summary
\* and no past roles, without raising.  With all the weight on the soft-skill
\* score the returned overall score is that score.
C14_SoftSkillTiers ==
    (score_call.called /\ score_call.weights = SoftOnlyWeights)
    => /\ ~score_call.ret.raised
       /\ score_call.ret.overall_score = 10 * ExpectedSoft(score_call.candidate_data)

\* a summary with a keyword and a later past role with a role keyword: 90
C14_Witness ==
    /\ score_call.called
    /\ score_call.weights = SoftOnlyWeights
    /\ score_call.candidate_data.summary = <<"m", "a", "n", "a", "g", "e", "m", "e", "n", "t">>
    /\ score_call.candidate_data.past_roles = << <<"C", "l", "e", "r", "k">>, <<"D", "I", "R", "E", "C", "T", "O", "R">> >>
    /\ score_call.ret.overall_score = 900

\* the score that a candidate level c earns against a required level r
ScoreForLevels(c, r) ==
    IF c >= r THEN 95
    ELSE IF c = r - 1 THEN 70
    ELSE Max(0, 50 - 15 * (r - c))

\* the largest level among the recognized entries of the list, 0 if none
RecognizedLevel(candidate_education) ==
    LET S == {education_hierarchy(candidate_education[i]) :
                 i \in {k \in DOMAIN candidate_education :
                           candidate_education[k] \in HierarchyLabels}} \cup {0}
    IN  CHOOSE m \in S : \A x \in S : x <= m

\* C15: an unrecognized minimum-education label counts as required level 3
\* and an unrecognized entry of the candidate's list counts as level 0 (it
\* adds nothing to the candidate's level); neither makes the call fail.
C15_UnrecognizedLabels ==
    edu_call.called =>
        LET list == edu_call.candidate_education
            unknown_required == edu_call.minimum_education \notin HierarchyLabels
            unknown_entry == \E i \in DOMAIN list : list[i] \notin HierarchyLabels
            r == IF unknown_required THEN 3
                 ELSE education_hierarchy(edu_call.minimum_education)
        IN  (unknown_required \/ unknown_entry)
            => /\ ~edu_call.ret.raised
               /\ edu_call.ret.score = ScoreForLevels(RecognizedLevel(list), r)

\* an unrecognized requirement against an unrecognized entry followed by an
\* associate degree: levels 2 and 3, one level below, 70
C15_Witness ==
    /\ edu_call.called
    /\ edu_call.minimum_education = UnrecognizedLabel
    /\ edu_call.candidate_education = <<UnrecognizedLabel, "Associate Degree">>
    /\ ~edu_call.ret.raised
    /\ edu_call.ret.score = 70

\* C19: when the candidate's level meets or exceeds the required level the
\* assessment names the first listed education entry, also when a later entry
\* is the one with the highest level.
C19_AssessmentNamesFirstEntry ==
    (/\ edu_call.called
     /\ RecognizedLevel(edu_call.candidate_education) >=
           (IF edu_call.minimum_education \in HierarchyLabels
            THEN education_hierarchy(edu_call.minimum_education) ELSE 3))
    => /\ ~edu_call.ret.raised
       /\ edu_call.ret.assessment.kind = "Meets or exceeds requirement"
       /\ edu_call.ret.assessment.entry = edu_call.candidate_education[1]

\* the first entry alone would be below a bachelor's degree; the PhD listed
\* second earns the 95, and the assessment still names the first entry
C19_Witness ==
    /\ edu_call.called
    /\ edu_call.minimum_education = "Bachelor's Degree"
    /\ edu_call.candidate_education = <<"Associate Degree", "PhD">>
    /\ edu_call.ret.score = 95
    /\ edu_call.ret.assessment.entry = "Associate Degree"

WithNice(job_requirements, nice) ==
    [job_requirements EXCEPT !.nice_to_have_skills = nice]

\* C18: a job profile that differs from the scored one only in
\* nice_to_have_skills gives the candidate the same scoring results (scores,
\* skill lists, assessments) and so the same recommendation.
C18_NiceToHaveInert ==
    score_call.called =>
        \A nice \in NiceLists :
            LET other == score_candidate(score_call.candidate_data,
                                         WithNice(score_call.job_requirements, nice),
                                         score_call.weights)
            IN  /\ score_call.ret \in other
                /\ other = score_candidate(score_call.candidate_data,
                                           score_call.job_requirements,
                                           score_call.weights)
                /\ generate_recommendation(score_call.ret)
                       \in {generate_recommendation(r) : r \in other}

\* the job lists a nice-to-have skill that the candidate has, and no
\* preferred skill
C18_Witness ==
    /\ score_call.called
    /\ score_call.job_requirements.nice_to_have_skills # <<>>
    /\ score_call.job_requirements.preferred_skills = <<>>
    /\ \E i \in 1..Len(score_call.job_requirements.nice_to_have_skills) :
          skill_matches(score_call.job_requirements.nice_to_have_skills[i],
                        score_call.candidate_data.skills)
    /\ score_call.ret.overall_score > 0

(***************************************************************************)
(* Properties of the default weights                                       *)
(***************************************************************************)
\* C20: with the default SCORING_WEIGHTS the components are at most 100
\* (skill), 100 (experience), 95 (education) and 90 (soft skills), the
\* overall score is at most 88.5, and the recommendation is never "hire"
\* with confidence "high".
C20_DefaultsNeverHireHigh ==
    (/\ score_call.called
     /\ score_call.weights = SCORING_WEIGHTS
     /\ ~score_call.ret.raised) =>
        LET ret == score_call.ret
            rec == generate_recommendation(ret)
        IN  /\ ret.skills_score <= 1000
            /\ ret.experience_score <= 1000
            /\ ret.education_score <= 950
            /\ soft_skill_score(score_call.candidate_data) <= 90
            /\ ret.overall_score <= 885
            /\ ~(rec.recommendation = "hire" /\ rec.confidence = "high")

\* the best candidate under the default weights: every component at its
\* maximum and an overall score of exactly 88.5, a "hire" of medium confidence
C20_Witness ==
    /\ score_call.called
    /\ score_call.weights = SCORING_WEIGHTS
    /\ ~score_call.ret.raised
    /\ score_call.ret.skills_score = 1000
    /\ score_call.ret.experience_score = 1000
    /\ score_call.ret.education_score = 950
    /\ soft_skill_score(score_call.candidate_data) = 90
    /\ score_call.ret.overall_score = 885
    /\ generate_recommendation(score_call.ret).recommendation = "hire"
    /\ generate_recommendation(score_call.ret).confidence = "medium"

(***************************************************************************)
(* Order properties of generate_recommendation                             *)
(***************************************************************************)
\* pass < review < hire
RecommendationRank(recommendation) ==
    CASE recommendation = "pass" -> 0
      [] recommendation = "review" -> 1
      [] recommendation = "hire" -> 2

\* list is an initial part of longer
IsPrefix(list, longer) ==
    /\ Len(list) <= Len(longer)
    /\ SubSeq(longer, 1, Len(list)) = list

RankFor(overall_score, missing_required) ==
    RecommendationRank(
        generate_recommendation([overall_score |-> overall_score,
                                 missing_required_skills |-> missing_required]
        ).recommendation)

\* C22: with the same missing-required list a higher overall score never
\* gets a lower recommendation (pass < review < hire), and with the same
\* overall score a list with more missing skills never gets a higher one.
C22_RecommendationMonotone ==
    rec_call.called =>
        LET o == rec_call.scoring_results.overall_score
            m == rec_call.scoring_results.missing_required_skills
            rank == RecommendationRank(rec_call.ret.recommendation)
        IN  /\ \A higher \in OverallScores :
                  higher >= o => RankFor(higher, m) >= rank
            /\ \A more \in MissingLists :
                  IsPrefix(m, more) => RankFor(o, more) <= rank

\* a "review" for 65 with two skills missing: every higher score with these
\* two missing keeps at least "review", and 65 was "review" with none missing
C22_Witness ==
    /\ rec_call.called
    /\ rec_call.scoring_results.overall_score = 650
    /\ Len(rec_call.scoring_results.missing_required_skills) = 2
    /\ rec_call.ret.recommendation = "review"
    /\ RankFor(650, <<>>) = 1
    /\ RankFor(850, <<>>) = 2
    /\ RankFor(850, rec_call.scoring_results.missing_required_skills) = 1

(***************************************************************************)
(* Properties of the fallback to the demo extraction                       *)
(***************************************************************************)
\* C23: extract_candidate_data_with_claude never raises; when the package
\* cannot be imported, the API key is unset or empty, or the service call
\* or the reading of its response raises, it returns what
\* extract_candidate_data_demo returns for the same resume text; and the
\* service is called only when the import and the key check both succeeded.
C23_FallsBackToDemo ==
    extract_call.called =>
        LET env == extract_call.env
            ret == extract_call.ret
            usable == env.anthropic_installed /\ key_available(env)
            fails == extract_with_service(env).raised
        IN  /\ ~ret.raised
            /\ (~usable \/ fails) =>
                  /\ ret.source = "demo"
                  /\ ret.value = extract_candidate_data_demo(extract_call.resume_text)
            /\ ret.service_called => usable

\* the service answers with a fenced JSON object whose experience_years is
\* not a number: int() raises ValueError and the demo extraction of the
\* five-line resume is returned
C23_Witness ==
    /\ extract_call.called
    /\ extract_call.env.anthropic_installed
    /\ key_available(extract_call.env)
    /\ extract_call.env.service.content = << <<Fence, "json", "{bad}">> >>
    /\ extract_call.ret.service_called
    /\ extract_call.ret.source = "demo"
    /\ Len(extract_call.resume_text) = 5
    /\ extract_call.ret.value.name = "Jane Doe"
    /\ extract_call.ret.value.experience_years = 7

(***************************************************************************)
(* Properties of the interview questions                                   *)
(***************************************************************************)
\* the service is reached and its answer is read as a JSON array
ServiceGivesList(env) ==
    /\ env.anthropic_installed
    /\ key_available(env)
    /\ env.service.kind = "message"
    /\ env.service.content # <<>>
    /\ ~json_loads(clean_response(env.service.content[1])).raised
    /\ json_loads(clean_response(env.service.content[1])).type = "list"

\* C24: generate_interview_questions never raises, and it returns the
\* template questions, which are exactly five, whenever api_fallback is
\* True (the service is then not invoked), the API key is unset, the package
\* is missing, the service call raises or the service's answer is not a list.
C24_TemplateFallback ==
    questions_call.called =>
        LET ret == questions_call.ret
            template == _generate_questions_template(
                            questions_call.candidate_data,
                            questions_call.job_requirements,
                            questions_call.scoring_results)
        IN  /\ ~ret.raised
            /\ Len(template) = 5
            /\ (questions_call.api_fallback \/ ~ServiceGivesList(questions_call.env)) =>
                  /\ ret.value = template
                  /\ Len(ret.value) = 5
            /\ questions_call.api_fallback => ~ret.service_called

\* the service is called and raises; the five template questions come back,
\* the third about learning the missing skill
C24_Witness ==
    /\ questions_call.called
    /\ ~questions_call.api_fallback
    /\ questions_call.env.anthropic_installed
    /\ key_available(questions_call.env)
    /\ questions_call.env.service.kind = "api_error"
    /\ questions_call.ret.service_called
    /\ questions_call.scoring_results.missing_required_skills # <<>>
    /\ Len(questions_call.ret.value) = 5
    /\ questions_call.ret.value[3].template = "approach learning"

(***************************************************************************)
(* Properties of the reports of screen_candidate                           *)
(***************************************************************************)
\* C21: in every report of the pipeline a recommendation "hire" comes with
\* an empty missing_required_skills and a rounded overall score of at least
\* 80; a report with a missing required skill never recommends "hire",
\* whatever the weights and the scores.
C21_HireNeedsAllRequired ==
    (report.called /\ ~report.ret.raised) =>
        /\ report.ret.recommendation = "hire" =>
              /\ report.ret.missing_required_skills = <<>>
              /\ report.ret.overall_score >= 800
        /\ report.ret.missing_required_skills # <<>> =>
              report.ret.recommendation # "hire"

\* a report that recommends "hire" for a job with a required skill, under
\* weights other than the defaults
C21_Witness ==
    /\ report.called
    /\ ~report.ret.raised
    /\ report.ret.recommendation = "hire"
    /\ report.ret.matched_required_skills # <<>>
    /\ report.scoring_weights # SCORING_WEIGHTS
    /\ report.ret.overall_score >= 800
    /\ Len(report.ret.interview_questions) = 5

====
